---------------------------- MODULE Spec2Model ----------------------------
(***************************************************************************)
(* A model of the electro-thermal pack simulation engine of battery_pack.  *)
(*                                                                         *)
(* Numbers.  The code computes in IEEE doubles; the model computes in      *)
(* fixed point, every quantity an integer number of its unit, and every   *)
(* division rounding toward zero (TDiv):                                   *)
(*     SOC, exp factors, fractions   1/ONE      (ONE = 1000 stands for 1.0)*)
(*     current                       0.1 A                                 *)
(*     time                          1 ms                                  *)
(*     resistance                    1e-5 Ohm                              *)
(*     capacitance                   1 F                                   *)
(*     voltage                       1 uV  (= 1e-5 Ohm * 0.1 A)            *)
(*     temperature                   1 mK                                  *)
(*     capacity, charge throughput   1 mAh                                 *)
(*     heat                          1 mW                                  *)
(*     power                         1 W                                   *)
(*     thermal mass * Cp             1 J/K,   UA   1 W/K                   *)
(* Python raises on a float division by zero and on a float ** whose       *)
(* result leaves the double range; both are modelled as a raised step.     *)
(***************************************************************************)
EXTENDS Integers, Sequences, FiniteSets, TLC

VARIABLES
    cell_params,     \* the CellParams record handed to the BatteryPack constructors
    pack_params,     \* the PackParams record handed to the constructors
    thermal_params,  \* the ThermalParams record handed to the constructors
    packs,           \* BatteryPack instances: pack id -> [constructed, state, row, nrows]
    solo,            \* per pack: the same pack driven alone on private copies of the records
    last,            \* the last call made on a BatteryPack and the state it found
    ncalls,          \* number of calls made so far
    adv,             \* the BatteryPackAdvanced instance
    ag,              \* the apply_aging harness: parameters fed back call after call
    sim,             \* the Simulator and its round_trip_efficiency run
    own,             \* the store of CellParams objects and the advanced packs built over it
    lim,             \* the compute_power_limits harness: a pack and the limits computed on it
    tnet,            \* a ThermalNetwork instance
    pair,            \* two BatteryPackAdvanced instances, with and without an OCV lookup
    tel,             \* a time-stepper driving a basic or an advanced pack, and its records
    ecm,             \* one CellECM and the calls made on it
    apb,             \* one call of apply_passive_balancing
    qry,             \* a BatteryPack queried by compute_power_limits between steps
    bms,             \* a BMSProtection and the check made on it
    chg              \* constant_current_constant_voltage: the profile being generated

vars == <<cell_params, pack_params, thermal_params, packs, solo, last, ncalls, adv, ag, sim,
          own, lim, tnet, pair, tel, ecm, apb, qry, bms, chg>>

packVars == <<cell_params, pack_params, thermal_params, packs, solo, last, ncalls>>

\* the objects of the later sections
laterVars == <<own, lim, tnet, pair>>

\* the objects of the last sections
lastVars == <<tel, ecm, apb, qry, bms, chg>>

-----------------------------------------------------------------------------
(* Fixed-point arithmetic *)

\* 1.0 in fixed point: the upper clip bound of the SOC, the 1.0 of (1.0 - exp_fac)
ONE == 1000

\* Bounds of the model
MaxCalls == 2
MaxAgingCalls == 3
MaxAdvCalls == 3
MaxSamples == 3
\* the largest square a double holds, scaled to the model's current unit
MaxFloat == 1000000

Abs(x) == IF x < 0 THEN -x ELSE x

Max(a, b) == IF a >= b THEN a ELSE b

Min(a, b) == IF a <= b THEN a ELSE b

\* float division, rounded toward zero; b # 0
TDiv(a, b) ==
    LET q == Abs(a) \div Abs(b)
    IN  IF (a < 0) = (b < 0) THEN q ELSE -q

\* np.clip(x, lo, hi)
Clip(x, lo, hi) == IF x < lo THEN lo ELSE IF x > hi THEN hi ELSE x

\* np.exp on fixed point: argument and result in 1/ONE.  Arguments beyond
\* +-ONE/2 are halved and the result squared; the rest is a 4-term series.
ExpSquare(h) == TDiv(h * h, ONE)

ExpSeries(x, t2) == ONE + x + t2 + TDiv(t2 * x, 3 * ONE) + TDiv(TDiv(t2 * x, 3 * ONE) * x, 4 * ONE)

RECURSIVE ExpFix(_)
ExpFix(x) ==
    IF Abs(x) > ONE \div 2
    THEN ExpSquare(ExpFix(TDiv(x, 2)))
    ELSE ExpSeries(x, TDiv(x * x, 2 * ONE))

\* Python's float ** 2: OverflowError when the square leaves the double range
PowRaises(x) == x * x > MaxFloat

-----------------------------------------------------------------------------
(* cell.py: CellECM *)

\* the OCV curve without the clip to the floor and the ceiling
OcvUnclipped(cp, soc) ==
    LET s == Clip(soc, 0, ONE)
    IN  3000000 + 1200 * s + 300 * ExpFix(-20 * (ONE - s)) - 80 * ExpFix(-20 * s)

\* CellECM.ocv
Ocv(cp, soc) ==
    LET s == Clip(soc, 0, ONE)
        v == 3000000 + 1200 * s + 300 * ExpFix(-20 * (ONE - s)) - 80 * ExpFix(-20 * s)
    IN  Clip(v, cp.ocv_floor_v, cp.ocv_ceiling_v)

\* CellECM.temperature_adjusted_resistances
TempAdjustedResistances(cp, T_k) ==
    LET delta_T == T_k - cp.T_ref_k
        scale   == ONE + TDiv(cp.R_temp_coeff_per_k * delta_T, 1000)
    IN  [R0 |-> TDiv(cp.R0_ohm * scale, ONE), R1 |-> TDiv(cp.R1_ohm * scale, ONE)]

\* the coulomb count with the charge drawn taken as a fraction of the SOC left
CoulombCountRelative(initial_soc, I_a, dt_s, q_as) ==
    Clip(initial_soc - TDiv(initial_soc * TDiv(I_a * dt_s, q_as), ONE), 0, ONE)

\* the coulomb count with the sign of the current taken the other way
CoulombCountReversed(initial_soc, I_a, dt_s, q_as) ==
    Clip(initial_soc + TDiv(I_a * dt_s, q_as), 0, ONE)

\* the coulomb count without the clip's lower bound
CoulombCountNoFloor(initial_soc, I_a, dt_s, q_as) ==
    Min(ONE, initial_soc - TDiv(I_a * dt_s, q_as))

\* next_soc = clip(initial_soc - (I_a * dt_s) / q_as, 0.0, 1.0); q_as # 0
CoulombCount(initial_soc, I_a, dt_s, q_as) ==
    Clip(initial_soc - TDiv(I_a * dt_s, q_as), 0, ONE)

\* CellECM.step_voltage_states, lines 50-55, with the RC voltage already advanced
StepSoc(cp, I_a, dt_s, R0, next_V, initial_soc, q_as) ==
    IF q_as = 0
    THEN [raised |-> TRUE, V_term |-> 0, V_rc1 |-> next_V, soc |-> initial_soc]
    ELSE LET next_soc == CoulombCount(initial_soc, I_a, dt_s, q_as)
         IN  [raised |-> FALSE,
              V_term |-> Ocv(cp, next_soc) - R0 * I_a - next_V,
              V_rc1  |-> next_V,
              soc    |-> next_soc]

\* the RC branch advanced by one forward Euler step
StepRcEuler(R1, C1_f, I_a, dt_s, V_rc1_v, tau) ==
    IF tau > 0
    THEN V_rc1_v + TDiv(dt_s, tau) * (R1 * I_a - V_rc1_v)
    ELSE R1 * I_a

\* CellECM.step_voltage_states, lines 43-48: the RC branch voltage.  Each
\* product is rounded before the sum is taken, as each float operation is.
StepRc(R1, C1_f, I_a, dt_s, V_rc1_v, tau) ==
    IF tau > 0
    THEN LET exp_fac == ExpFix(-TDiv(dt_s * ONE, tau))
         IN  TDiv(exp_fac * V_rc1_v, ONE) + TDiv((ONE - exp_fac) * (R1 * I_a), ONE)
    ELSE R1 * I_a

\* CellECM.step_voltage_states: [raised, V_term, V_rc1, soc]
StepVoltageStates(cp, I_a, dt_s, V_rc1_v, T_k, initial_soc) ==
    LET R == TempAdjustedResistances(cp, T_k)
    IN  StepSoc(cp, I_a, dt_s, R.R0,
                StepRc(R.R1, cp.C1_f, I_a, dt_s, V_rc1_v, TDiv(R.R1 * cp.C1_f, 100)),
                initial_soc, cp.capacity_ah * 36)

-----------------------------------------------------------------------------
(* thermal.py: LumpedThermal *)

\* LumpedThermal.step
ThermalStep(tp, T_k, heat_w, dt_s) ==
    LET dTdt == TDiv(heat_w - tp.UA_w_per_k * (T_k - tp.T_ambient_k),
                     Max(1, tp.mass_kg * tp.Cp_j_per_kgk))
    IN  T_k + TDiv(dt_s * dTdt, 1000)

-----------------------------------------------------------------------------
(* pack.py: BatteryPack *)

Packs == {1, 2}

NoRow == [none |-> TRUE]

NoPack == [constructed |-> FALSE]

\* BatteryPack.__init__: the PackState it builds; no argument is validated
PackConstructState(tp, initial_soc) ==
    [soc |-> Clip(initial_soc, 0, ONE), T_k |-> tp.T_ambient_k, V_rc1_v |-> 0]

\* a reset that leaves the RC voltage as it found it
PackResetStateKeepsRc(st, tp, initial_soc) ==
    [st EXCEPT !.soc = Clip(initial_soc, 0, ONE), !.T_k = tp.T_ambient_k]

\* BatteryPack.reset: the three assignments to the fields of self.state
PackResetState(st, tp, initial_soc) ==
    [st EXCEPT !.soc = Clip(initial_soc, 0, ONE), !.T_k = tp.T_ambient_k, !.V_rc1_v = 0]

\* BatteryPack.step, lines 66-89, once the cell update c has returned and the
\* heat can be computed: the committed state and the telemetry row
PackStepDone(st, cp, pp, tp, I_pack_a, dt_s, I_cell_a, c) ==
    LET V_pack_new == pp.series_cells * c.V_term
        R          == TempAdjustedResistances(cp, st.T_k)
        R_sum      == R.R0 + R.R1
        Q_pack_w   == TDiv(TDiv(pp.series_cells * (I_pack_a * I_pack_a) * R_sum,
                                Max(1, pp.parallel_cells)), 10000)
        T_next     == ThermalStep(tp, st.T_k, Q_pack_w, dt_s)
    IN  [raised |-> FALSE, at |-> "none",
         state  |-> [soc |-> c.soc, T_k |-> T_next, V_rc1_v |-> c.V_rc1],
         row    |-> [v_pack_v |-> V_pack_new,
                     v_cell_v |-> c.V_term,
                     i_pack_a |-> I_pack_a,
                     i_cell_a |-> I_cell_a,
                     soc      |-> c.soc,
                     temp_k   |-> T_next,
                     power_w  |-> TDiv(TDiv(V_pack_new, 1000) * I_pack_a, 10000),
                     heat_w   |-> Q_pack_w]]

\* BatteryPack.step with the cell's state committed before the heat is computed
PackStepAfterCellEarlyCommit(st, cp, pp, tp, I_pack_a, dt_s, I_cell_a, c) ==
    IF c.raised
    THEN [raised |-> TRUE, at |-> "cell", state |-> st, row |-> NoRow]
    ELSE IF PowRaises(I_pack_a)
    THEN [raised |-> TRUE, at |-> "heat",
          state |-> [st EXCEPT !.V_rc1_v = c.V_rc1, !.soc = c.soc], row |-> NoRow]
    ELSE PackStepDone(st, cp, pp, tp, I_pack_a, dt_s, I_cell_a, c)

\* BatteryPack.step after _step_cell: the call raised in the cell update
\* (ZeroDivisionError) or raises in I_pack_a ** 2 (OverflowError), with self.state
\* untouched because the commit at lines 75-77 was not reached, or it returns
PackStepAfterCell(st, cp, pp, tp, I_pack_a, dt_s, I_cell_a, c) ==
    IF c.raised
    THEN [raised |-> TRUE, at |-> "cell", state |-> st, row |-> NoRow]
    ELSE IF PowRaises(I_pack_a)
    THEN [raised |-> TRUE, at |-> "heat", state |-> st, row |-> NoRow]
    ELSE PackStepDone(st, cp, pp, tp, I_pack_a, dt_s, I_cell_a, c)

\* BatteryPack._step_cell on the per-cell current I_pack_a / max(1, Np)
PackStepCell(st, cp, I_cell_a, dt_s) ==
    StepVoltageStates(cp, I_cell_a, dt_s, st.V_rc1_v, st.T_k, st.soc)

\* BatteryPack.step: what the call leaves in self.state and the row it returns,
\* or that it raised and where
PackStepResult(st, cp, pp, tp, I_pack_a, dt_s) ==
    PackStepAfterCell(st, cp, pp, tp, I_pack_a, dt_s,
                      TDiv(I_pack_a, Max(1, pp.parallel_cells)),
                      PackStepCell(st, cp, TDiv(I_pack_a, Max(1, pp.parallel_cells)), dt_s))

\* the write of self.state when every pack aliases one PackState object
StoreStateAliased(ps, p, st) ==
    [q \in DOMAIN ps |->
        IF q = p \/ ps[q].constructed THEN [ps[q] EXCEPT !.state = st] ELSE ps[q]]

\* the writes self.state.soc = ..., self.state.T_k = ..., self.state.V_rc1_v = ...
\* of a call on pack p: p's own PackState and nothing else
StoreState(ps, p, st) == [ps EXCEPT ![p] = [@ EXCEPT !.state = st]]

\* Inputs
CellConfigs ==
    {[capacity_ah |-> c, R0_ohm |-> 250, R1_ohm |-> 150, C1_f |-> 2000,
      V_min |-> 3000000, V_max |-> 4200000, T_ref_k |-> 298150,
      R_temp_coeff_per_k |-> 3, ocv_floor_v |-> 3000000, ocv_ceiling_v |-> 4200000]
     : c \in {-3000, 0, 3000}}

PackConfigs ==
    {[series_cells |-> n[1], parallel_cells |-> n[2], max_current_a |-> 1200,
      min_soc |-> 100, max_soc |-> 900] : n \in {<<2, 3>>, <<0, 0>>}}

DefaultThermal ==
    [mass_kg |-> 10, Cp_j_per_kgk |-> 900, UA_w_per_k |-> 6,
     T_ambient_k |-> 298150, T_max_k |-> 328150]

\* pack currents: 60 A charge, 3 A and 60 A discharge, and one whose square is
\* out of range
Currents == {-600, 30, 600, 3000}

\* 1 s and 10 min
Steps == {1000, 600000}

InitialSocs == {800, 1500}

ResetSocs == {-500, 500}

NoCall == [op |-> "none"]

Idle == [idle |-> TRUE]

InitPack ==
    /\ cell_params \in CellConfigs
    /\ pack_params \in PackConfigs
    /\ thermal_params = DefaultThermal
    /\ packs = [p \in Packs |-> NoPack]
    /\ solo = [p \in Packs |-> NoPack]
    /\ last = NoCall
    /\ ncalls = 0

\* pack = BatteryPack(cell_params, pack_params, thermal_params, initial_soc)
PackConstruct(p, initial_soc) ==
    /\ ~packs[p].constructed
    /\ LET st == PackConstructState(thermal_params, initial_soc)
       IN  /\ packs' = [packs EXCEPT ![p] =
                            [constructed |-> TRUE, state |-> st, row |-> NoRow, nrows |-> 0]]
           /\ solo' = [solo EXCEPT ![p] =
                            [constructed |-> TRUE, state |-> st, row |-> NoRow,
                             cell |-> cell_params, pack |-> pack_params,
                             thermal |-> thermal_params]]
    /\ last' = [op |-> "init", pack |-> p]
    /\ UNCHANGED <<lastVars, cell_params, pack_params, thermal_params, ncalls, adv, ag, sim, laterVars>>

\* pack.step(I_pack_a, dt_s), given its outcome r on pack p and the outcome t of
\* the same call on p's solo twin
PackStepApply(p, I_pack_a, dt_s, r, t) ==
    /\ packs' = IF r.raised
                THEN StoreState(packs, p, r.state)
                ELSE [StoreState(packs, p, r.state) EXCEPT ![p].row = r.row,
                                                           ![p].nrows = @ + 1]
    /\ solo' = [solo EXCEPT ![p].state = t.state,
                            ![p].row = IF t.raised THEN @ ELSE t.row]
    /\ last' = [op |-> "step", pack |-> p, raised |-> r.raised, at |-> r.at,
                pre |-> packs[p].state, I |-> I_pack_a, dt |-> dt_s]

\* pack.step(I_pack_a, dt_s)
PackStep(p, I_pack_a, dt_s) ==
    /\ packs[p].constructed
    /\ ncalls < MaxCalls
    /\ PackStepApply(p, I_pack_a, dt_s,
            PackStepResult(packs[p].state, cell_params, pack_params, thermal_params,
                           I_pack_a, dt_s),
            PackStepResult(solo[p].state, solo[p].cell, solo[p].pack, solo[p].thermal,
                           I_pack_a, dt_s))
    /\ ncalls' = ncalls + 1
    /\ UNCHANGED <<lastVars, cell_params, pack_params, thermal_params, adv, ag, sim, laterVars>>

\* pack.reset(initial_soc)
PackReset(p, initial_soc) ==
    /\ packs[p].constructed
    /\ ncalls < MaxCalls
    /\ packs' = StoreState(packs, p, PackResetState(packs[p].state, thermal_params, initial_soc))
    /\ solo' = [solo EXCEPT ![p].state = PackResetState(solo[p].state, solo[p].thermal, initial_soc)]
    /\ last' = [op |-> "reset", pack |-> p, s |-> initial_soc, pre |-> packs[p].state]
    /\ ncalls' = ncalls + 1
    /\ UNCHANGED <<lastVars, cell_params, pack_params, thermal_params, adv, ag, sim, laterVars>>

NextPack ==
    \/ \E p \in Packs, s \in InitialSocs : PackConstruct(p, s)
    \/ \E p \in Packs, I \in Currents, dt \in Steps : PackStep(p, I, dt)
    \/ \E p \in Packs, s \in ResetSocs : PackReset(p, s)

Init ==
    /\ InitPack /\ adv = Idle /\ ag = Idle /\ sim = Idle
    /\ own = Idle /\ lim = Idle /\ tnet = Idle /\ pair = Idle
    /\ tel = Idle /\ ecm = Idle /\ apb = Idle
    /\ qry = Idle /\ bms = Idle /\ chg = Idle

\* Two BatteryPack instances built from the same parameter records
Spec == Init /\ [][NextPack]_vars

-----------------------------------------------------------------------------
(* Properties of BatteryPack *)

\* CellParams and PackParams satisfy the data model: capacity > 0, Ns >= 1, Np >= 1
ValidConfig ==
    /\ cell_params.capacity_ah > 0
    /\ pack_params.series_cells >= 1
    /\ pack_params.parallel_cells >= 1

\* the per-cell current of the last step
LastCellCurrent == TDiv(last.I, Max(1, pack_params.parallel_cells))

\* C1: for a BatteryPack with capacity > 0, after construction with any initial_soc
\* and any sequence of step and reset calls, state.soc lies in [0,1] and so does
\* the soc of every telemetry row
C1_SocBounded ==
    cell_params.capacity_ah > 0 =>
        \A p \in Packs :
            packs[p].constructed =>
                /\ packs[p].state.soc >= 0
                /\ packs[p].state.soc <= ONE
                /\ packs[p].row # NoRow => (packs[p].row.soc >= 0 /\ packs[p].row.soc <= ONE)

\* C1 witness: a step whose I*dt overdrains the cell has returned and left the SOC at 0
C1_Overdrained ==
    /\ cell_params.capacity_ah > 0
    /\ last.op = "step"
    /\ ~last.raised
    /\ last.pre.soc - TDiv(LastCellCurrent * last.dt, cell_params.capacity_ah * 36) < 0
    /\ packs[last.pack].state.soc = 0
    /\ packs[last.pack].row.soc = 0

\* C2: BatteryPack.step commits atomically: after a step that raised, soc, V_rc1_v
\* and T_k all hold their pre-call values; after a step that returned, all three
\* hold the newly computed values
C2_StepAtomic ==
    last.op = "step" =>
        LET st == packs[last.pack].state
        IN  IF last.raised
            THEN st = last.pre
            ELSE /\ st.soc = packs[last.pack].row.soc
                 /\ st.T_k = packs[last.pack].row.temp_k
                 /\ st.V_rc1_v =
                        PackStepCell(last.pre, cell_params, LastCellCurrent, last.dt).V_rc1

\* C2 witness: a step raised in the heat computation after its cell update had
\* computed a new SOC and a new RC voltage
C2_RaisedAfterCellUpdate ==
    /\ last.op = "step"
    /\ last.raised
    /\ last.at = "heat"
    /\ PackStepCell(last.pre, cell_params, LastCellCurrent, last.dt).soc # last.pre.soc
    /\ PackStepCell(last.pre, cell_params, LastCellCurrent, last.dt).V_rc1 # last.pre.V_rc1_v

\* C8: an invalid configuration (capacity <= 0, Ns < 1 or Np < 1) fails at
\* construction, so no pack built from it ever returns a telemetry row
C8_InvalidConfigFailsFast ==
    ~ValidConfig =>
        \A p \in Packs : ~(packs[p].constructed /\ packs[p].nrows > 0)

\* C10: two BatteryPack instances built from the same parameter records share no
\* mutable state: under every interleaving of calls each pack's state and telemetry
\* equal those of the same pack driven alone, and the shared records are not written
C10_PacksIndependent ==
    \A p \in Packs :
        packs[p].constructed =>
            /\ packs[p].state = solo[p].state
            /\ packs[p].row = solo[p].row
            /\ cell_params = solo[p].cell
            /\ pack_params = solo[p].pack
            /\ thermal_params = solo[p].thermal

\* C10 witness: both packs have been stepped, interleaved, and are in different states
C10_Interleaved ==
    /\ packs[1].constructed
    /\ packs[2].constructed
    /\ packs[1].nrows > 0
    /\ packs[2].nrows > 0
    /\ packs[1].state # packs[2].state

\* C12: BatteryPack.reset(s) is independent of history and idempotent: whatever
\* state it found, the state after reset(s) is SOC = clip(s,0,1), RC voltage 0,
\* temperature ambient, and resetting that state to s again changes nothing
C12_ResetExactIdempotent ==
    last.op = "reset" =>
        /\ packs[last.pack].state =
              [soc |-> Clip(last.s, 0, ONE), T_k |-> thermal_params.T_ambient_k, V_rc1_v |-> 0]
        /\ PackResetState(packs[last.pack].state, thermal_params, last.s)
              = packs[last.pack].state

\* C12 witness: a reset with an out-of-range SOC found a pack whose SOC, RC
\* voltage and temperature all differed from the values reset gives
C12_ResetAfterUse ==
    /\ last.op = "reset"
    /\ last.s < 0
    /\ last.pre.soc # 0
    /\ last.pre.V_rc1_v # 0
    /\ last.pre.T_k # thermal_params.T_ambient_k
    /\ packs[last.pack].state.V_rc1_v = 0

-----------------------------------------------------------------------------
(* aging.py *)

\* arrhenius_multiplier: exp(beta * (T_k - T_ref_k) / 10.0), in 1/ONE
ArrheniusMultiplier(T_k, T_ref_k, beta) ==
    ExpFix(TDiv(TDiv(beta * (T_k - T_ref_k), 1000), 10))

\* a fractional change given in ppm as a factor in 1/10000
FracOfPpm(ppm) == TDiv(ppm, 100)

\* apply_aging, lines 27-33, given the three fractional changes in ppm;
\* the clamps are taken on the arguments of this call
ApplyAgingClamp(capacity_ah, R0_ohm, R1_ohm, fade, grow0, grow1, p) ==
    [capacity_ah |-> Max(TDiv(p.min_capacity_fraction * capacity_ah, ONE),
                         TDiv(capacity_ah * (10000 - FracOfPpm(fade)), 10000)),
     R0_ohm      |-> Min(TDiv(p.max_resistance_scale * R0_ohm, ONE),
                         TDiv(R0_ohm * (10000 + FracOfPpm(grow0)), 10000)),
     R1_ohm      |-> Min(TDiv(p.max_resistance_scale * R1_ohm, ONE),
                         TDiv(R1_ohm * (10000 + FracOfPpm(grow1)), 10000))]

\* apply_aging with dAh in place of max(0.0, dAh)
ApplyAgingRatesNoMax(capacity_ah, R0_ohm, R1_ohm, dAh, fade_rate, grow_rate, grow1_rate, p) ==
    ApplyAgingClamp(capacity_ah, R0_ohm, R1_ohm,
                    TDiv(fade_rate * dAh, 1000),
                    TDiv(grow_rate * dAh, 1000),
                    TDiv(grow1_rate * dAh, 1000), p)

\* apply_aging with the accelerated rates in ppm per Ah: rate * acc * max(0, dAh)
ApplyAgingRates(capacity_ah, R0_ohm, R1_ohm, dAh, fade_rate, grow_rate, grow1_rate, p) ==
    ApplyAgingClamp(capacity_ah, R0_ohm, R1_ohm,
                    TDiv(fade_rate * Max(0, dAh), 1000),
                    TDiv(grow_rate * Max(0, dAh), 1000),
                    TDiv(grow1_rate * Max(0, dAh), 1000), p)

\* apply_aging given acc = arrhenius_multiplier(...)
ApplyAgingAcc(capacity_ah, R0_ohm, R1_ohm, dAh, acc, p) ==
    ApplyAgingRates(capacity_ah, R0_ohm, R1_ohm, dAh,
                    TDiv(p.capacity_fade_per_ah * acc, ONE),
                    TDiv(p.resistance_growth_per_ah * acc, ONE),
                    TDiv(TDiv(p.resistance_growth_per_ah * 5, 10) * acc, ONE), p)

\* apply_aging(capacity_ah, R0_ohm, R1_ohm, dAh, T_k, p)
ApplyAging(capacity_ah, R0_ohm, R1_ohm, dAh, T_k, p) ==
    ApplyAgingAcc(capacity_ah, R0_ohm, R1_ohm, dAh,
                  ArrheniusMultiplier(T_k, p.T_ref_k, p.thermal_sensitivity_beta), p)

\* AgingParams(): rates in ppm per Ah, beta and the clamps in 1/ONE
DefaultAging ==
    [capacity_fade_per_ah |-> 20, resistance_growth_per_ah |-> 30,
     thermal_sensitivity_beta |-> 40, T_ref_k |-> 298150,
     min_capacity_fraction |-> 700, max_resistance_scale |-> 2500]

\* AgingParams(capacity_fade_per_ah=0.1, resistance_growth_per_ah=0.03)
FastAging ==
    [DefaultAging EXCEPT !.capacity_fade_per_ah = 100000,
                         !.resistance_growth_per_ah = 30000]

-----------------------------------------------------------------------------
(* apply_aging called repeatedly, each call fed the previous call's outputs *)

AgingCapacities == {2100, 3000}

\* dAh in mAh: negative, zero, 1.666 Ah and 10 Ah
AgingThroughputs == {-1000, 0, 1666, 10000}

\* 0 C, 25 C, 45 C
AgingTemperatures == {273150, 298150, 318150}

InitAging ==
    /\ \E c \in AgingCapacities, p \in {DefaultAging, FastAging} :
          ag = [capacity_ah |-> c, R0_ohm |-> 250, R1_ohm |-> 150,
                orig |-> [capacity_ah |-> c, R0_ohm |-> 250, R1_ohm |-> 150],
                p |-> p, n |-> 0, dAh |-> 0, T_k |-> p.T_ref_k]
    /\ cell_params = Idle /\ pack_params = Idle /\ thermal_params = Idle
    /\ packs = Idle /\ solo = Idle /\ last = Idle /\ ncalls = 0
    /\ adv = Idle /\ sim = Idle
    /\ own = Idle /\ lim = Idle /\ tnet = Idle /\ pair = Idle
    /\ tel = Idle /\ ecm = Idle /\ apb = Idle
    /\ qry = Idle /\ bms = Idle /\ chg = Idle

\* the parameters become the outputs r of the call
AgingStore(dAh, T_k, r) ==
    ag' = [ag EXCEPT !.capacity_ah = r.capacity_ah, !.R0_ohm = r.R0_ohm,
                     !.R1_ohm = r.R1_ohm, !.n = @ + 1, !.dAh = dAh, !.T_k = T_k]

\* cap, R0, R1 = apply_aging(cap, R0, R1, dAh, T_k, p)
AgingCall(dAh, T_k) ==
    /\ ag.n < MaxAgingCalls
    /\ AgingStore(dAh, T_k,
                  ApplyAging(ag.capacity_ah, ag.R0_ohm, ag.R1_ohm, dAh, T_k, ag.p))
    /\ UNCHANGED <<lastVars, packVars, adv, sim, laterVars>>

NextAging == \E dAh \in AgingThroughputs, T_k \in AgingTemperatures : AgingCall(dAh, T_k)

SpecAging == InitAging /\ [][NextAging]_vars

\* C4: after any number of repeated apply_aging calls the capacity is at least
\* min_capacity_fraction times the original capacity, and R0 and R1 are at most
\* max_resistance_scale times their original values
C4_ClampsRelativeToOriginal ==
    /\ ag.capacity_ah >= TDiv(ag.p.min_capacity_fraction * ag.orig.capacity_ah, ONE)
    /\ ag.R0_ohm <= TDiv(ag.p.max_resistance_scale * ag.orig.R0_ohm, ONE)
    /\ ag.R1_ohm <= TDiv(ag.p.max_resistance_scale * ag.orig.R1_ohm, ONE)

\* one apply_aging call never raises the capacity nor lowers a resistance, and
\* changes nothing when dAh <= 0
AgingCallMonotone ==
    (ag.capacity_ah > 0 /\ ag.R0_ohm >= 0 /\ ag.R1_ohm >= 0) =>
        /\ ag'.capacity_ah <= ag.capacity_ah
        /\ ag'.R0_ohm >= ag.R0_ohm
        /\ ag'.R1_ohm >= ag.R1_ohm
        /\ ag'.dAh <= 0 =>
              /\ ag'.capacity_ah = ag.capacity_ah
              /\ ag'.R0_ohm = ag.R0_ohm
              /\ ag'.R1_ohm = ag.R1_ohm

\* C5: aging is monotonic: every apply_aging call returns capacity' <= capacity,
\* R0' >= R0 and R1' >= R1, unchanged when dAh <= 0, so along repeated calls the
\* capacity is non-increasing and the resistances non-decreasing
C5_AgingMonotone == [][AgingCallMonotone]_vars

\* C5 witness: after repeated calls, one of them with dAh <= 0, the capacity has
\* dropped and both resistances have grown
C5_Aged ==
    /\ ag.n >= 2
    /\ ag.dAh <= 0
    /\ ag.capacity_ah < ag.orig.capacity_ah
    /\ ag.capacity_ah > 0
    /\ ag.R0_ohm > ag.orig.R0_ohm
    /\ ag.R1_ohm > ag.orig.R1_ohm

-----------------------------------------------------------------------------
(* variation.py *)

\* make_varied_cells: one CellParams per cell, the base scaled by the cell's draw
\* (capacity, R0 and R1 scales in 1/ONE); every other field is the base's
MakeVariedCells(base, Ns, draw) ==
    [i \in 1..Ns |->
        [base EXCEPT !.capacity_ah = TDiv(base.capacity_ah * draw[i].cap, ONE),
                     !.R0_ohm = TDiv(base.R0_ohm * draw[i].R0, ONE),
                     !.R1_ohm = TDiv(base.R1_ohm * draw[i].R1, ONE)]]

RECURSIVE SeqSum(_)
SeqSum(q) == IF q = <<>> THEN 0 ELSE Head(q) + SeqSum(Tail(q))

\* ndarray.mean()
SeqMean(q) == TDiv(SeqSum(q), Len(q))

\* the bleed without its floor at 0
BalanceBleedNoFloor(soc_i, dsoc) == soc_i - dsoc

\* next_soc[i] = max(0.0, soc[i] - dsoc)
BalanceBleed(soc_i, dsoc) == Max(0, soc_i - dsoc)

\* the bleed of every cell sized by the capacity of the first
BalanceAboveMeanFirstCapacity(soc, capacity_ah, dt_s, bp, mean_soc) ==
    [i \in 1..Len(soc) |->
        IF soc[i] > mean_soc + bp.soc_over_delta
        THEN BalanceBleed(soc[i], TDiv(bp.bleed_current_a * dt_s,
                                       Max(1, capacity_ah[1] * 36)))
        ELSE soc[i]]

\* apply_passive_balancing, lines 53-59, given mean_soc
BalanceAboveMean(soc, capacity_ah, dt_s, bp, mean_soc) ==
    [i \in 1..Len(soc) |->
        IF soc[i] > mean_soc + bp.soc_over_delta
        THEN BalanceBleed(soc[i], TDiv(bp.bleed_current_a * dt_s,
                                       Max(1, capacity_ah[i] * 36)))
        ELSE soc[i]]

\* apply_passive_balancing
ApplyPassiveBalancing(soc, capacity_ah, pack_current_a, dt_s, bp) ==
    IF ~bp.enable \/ Abs(pack_current_a) > bp.idle_current_threshold_a
    THEN soc
    ELSE BalanceAboveMean(soc, capacity_ah, dt_s, bp, SeqMean(soc))

\* BalancingParams(): 0.2 A bleed, 2 A idle threshold, 0.01 SOC margin
DefaultBalancing ==
    [enable |-> TRUE, bleed_current_a |-> 2, idle_current_threshold_a |-> 20,
     soc_over_delta |-> 10]

-----------------------------------------------------------------------------
(* thermal_network.py: ThermalNetwork; conductances in 0.1 W/K *)

\* ThermalNetwork._mode_sink_conductance
ModeSinkConductance(mode, base) ==
    CASE mode = "air"    -> base
      [] mode = "fin"    -> TDiv(25 * base, 10)
      [] mode = "pcm"    -> 4 * base
      [] mode = "liquid" -> 6 * base
      [] OTHER           -> base

\* a loop body that takes the exchange with the right-hand neighbour at every
\* node, the last one included, where it reads the first node
NetworkNodeHeatWrapped(T, heat_w, i, n, g_cc, g_sink, T_sink) ==
    (IF i <= Len(heat_w) THEN heat_w[i] ELSE 0)
      + (IF i > 1 THEN TDiv(g_cc * (T[i - 1] - T[i]), 10) ELSE 0)
      + TDiv(g_cc * (T[(i % n) + 1] - T[i]), 10)
      + TDiv(g_sink * (T_sink - T[i]), 10)

\* ThermalNetwork.step, lines 61-67: q + neighbors + sink_term of node i, in mW
NetworkNodeHeat(T, heat_w, i, n, g_cc, g_sink, T_sink) ==
    (IF i <= Len(heat_w) THEN heat_w[i] ELSE 0)
      + (IF i > 1 THEN TDiv(g_cc * (T[i - 1] - T[i]), 10) ELSE 0)
      + (IF i < n THEN TDiv(g_cc * (T[i + 1] - T[i]), 10) ELSE 0)
      + TDiv(g_sink * (T_sink - T[i]), 10)

\* ThermalNetwork.step, the body of the loop for node i: dTdt[i]
NetworkNodeRate(T, heat_w, i, n, g_cc, g_sink, T_sink, mC) ==
    TDiv(NetworkNodeHeat(T, heat_w, i, n, g_cc, g_sink, T_sink), Max(1, mC))

\* ThermalNetwork.step: the new self.T; np is the ThermalNetworkParams, the mass
\* per node is kept in g
NetworkStep(T, heat_w, dt_s, np) ==
    [i \in 1..np.num_nodes |->
        T[i] + TDiv(dt_s * NetworkNodeRate(T, heat_w, i, np.num_nodes,
                        np.cell_to_cell_w_per_k,
                        ModeSinkConductance(np.mode, np.cell_to_sink_w_per_k),
                        np.sink_temperature_k,
                        TDiv(TDiv(np.mass_kg_total * 1000, Max(1, np.num_nodes))
                             * np.Cp_j_per_kgk, 1000)),
                    1000)]

-----------------------------------------------------------------------------
(* pybamm_adapter.py: the optional OCV curve; SOC grid in 1/ONE, voltages in uV *)

NoCurve == [none |-> TRUE]

NoLookup == [none |-> TRUE]

\* what evaluating the parameter set gives when PyBaMM is there and works: a
\* PyBaMMOCV(soc, ocv_v), here on a grid of five points
GeneratedCurve ==
    [soc |-> <<0, 250, 500, 750, 1000>>,
     ocv_v |-> <<3100000, 3500000, 3700000, 3900000, 4150000>>]

\* the environments try_generate_ocv_curve can meet
OcvEnvs == {"no_pybamm", "eval_error", "ok"}

\* try_generate_ocv_curve with no except clause: the error leaves the function
TryGenerateOcvCurveNoCatch(env) ==
    IF env = "ok" THEN [raised |-> FALSE, curve |-> GeneratedCurve]
                  ELSE [raised |-> TRUE, curve |-> NoCurve]

\* try_generate_ocv_curve: import pybamm raises in "no_pybamm", the evaluation of
\* the parameter set raises in "eval_error"; except Exception returns None
TryGenerateOcvCurve(env) ==
    IF env = "ok" THEN [raised |-> FALSE, curve |-> GeneratedCurve]
                  ELSE [raised |-> FALSE, curve |-> NoCurve]

\* OCVLookup.__init__
OcvLookupInit(curve) ==
    [soc |-> [j \in 1..Len(curve.soc) |-> Clip(curve.soc[j], 0, ONE)], ocv_v |-> curve.ocv_v]

\* np.interp(x, xp, fp) from segment j on, xp increasing
RECURSIVE Interp(_, _, _, _)
Interp(x, xp, fp, j) ==
    IF x <= xp[1] THEN fp[1]
    ELSE IF j >= Len(xp) THEN fp[Len(xp)]
    ELSE IF x <= xp[j + 1]
    THEN fp[j] + TDiv((fp[j + 1] - fp[j]) * (x - xp[j]), xp[j + 1] - xp[j])
    ELSE Interp(x, xp, fp, j + 1)

\* OCVLookup.__call__
OcvLookupCall(lookup, s) == Interp(Clip(s, 0, ONE), lookup.soc, lookup.ocv_v, 1)

-----------------------------------------------------------------------------
(* pack_advanced.py: BatteryPackAdvanced.  Cells are numbered from 1. *)

\* what try_generate_ocv_curve returns where it is not called
NotGenerated == [raised |-> FALSE, curve |-> NoCurve]

\* BatteryPackAdvanced.__init__; draw is the outcome of the seeded generator in
\* make_varied_cells and gen what try_generate_ocv_curve returned (it is called
\* only with use_pybamm_ocv; if it raised, so does the constructor).  No argument
\* is validated.
AdvConstruct(cell_base, pp, tp, advp, initial_soc, draw, gen) ==
    [pp |-> pp, tp |-> tp, advp |-> advp,
     ocv_lookup |-> IF advp.use_pybamm_ocv /\ gen.curve # NoCurve
                    THEN OcvLookupInit(gen.curve) ELSE NoLookup,
     Ns |-> pp.series_cells, Np |-> pp.parallel_cells,
     cell_params   |-> MakeVariedCells(cell_base, pp.series_cells, draw),
     soc           |-> [i \in 1..pp.series_cells |-> Clip(initial_soc, 0, ONE)],
     V_rc1         |-> [i \in 1..pp.series_cells |-> 0],
     throughput_ah |-> [i \in 1..pp.series_cells |-> 0],
     net |-> [num_nodes |-> pp.series_cells, mass_kg_total |-> tp.mass_kg,
              Cp_j_per_kgk |-> tp.Cp_j_per_kgk, cell_to_cell_w_per_k |-> 5,
              cell_to_sink_w_per_k |-> 10 * tp.UA_w_per_k,
              sink_temperature_k |-> tp.T_ambient_k, mode |-> advp.thermal_mode],
     T |-> [i \in 1..pp.series_cells |-> tp.T_ambient_k]]

\* a reset that leaves the throughput counters as it found them
AdvResetStateKeepsThroughput(a, initial_soc) ==
    [a EXCEPT !.soc = [i \in 1..a.Ns |-> Clip(initial_soc, 0, ONE)],
              !.V_rc1 = [i \in 1..a.Ns |-> 0],
              !.T = [i \in 1..a.Ns |-> a.tp.T_ambient_k]]

\* BatteryPackAdvanced.reset
AdvResetState(a, initial_soc) ==
    [a EXCEPT !.soc = [i \in 1..a.Ns |-> Clip(initial_soc, 0, ONE)],
              !.V_rc1 = [i \in 1..a.Ns |-> 0],
              !.throughput_ah = [i \in 1..a.Ns |-> 0],
              !.T = [i \in 1..a.Ns |-> a.tp.T_ambient_k]]

\* the RC voltage stored takes up the difference the lookup makes to the OCV
AdvCellWriteOverride(a, i, c) ==
    [a EXCEPT !.V_rc1[i] = IF a.ocv_lookup = NoLookup THEN c.V_rc1
                           ELSE c.V_rc1 + OcvLookupCall(a.ocv_lookup, c.soc)
                                  - Ocv(a.cell_params[i], c.soc),
              !.soc[i] = c.soc]

\* step, lines 104-105: self.V_rc1[i] = Vrc_next; self.soc[i] = soc_next
AdvCellWrite(a, i, c) == [a EXCEPT !.V_rc1[i] = c.V_rc1, !.soc[i] = c.soc]

\* step, lines 96-102: V_term of cell i, recomputed from the lookup if there is one
AdvVTerm(a, i, I_cell, c) ==
    IF a.ocv_lookup = NoLookup THEN c.V_term
    ELSE OcvLookupCall(a.ocv_lookup, c.soc)
           - TempAdjustedResistances(a.cell_params[i], a.T[i]).R0 * I_cell - c.V_rc1

\* step, line 108, once I_cell ** 2 has been taken: the Joule heat of node i
AdvNodeHeat(I_cell, R, Np) == TDiv((I_cell * I_cell) * (R.R0 + R.R1) * Np, 10000)

\* step, lines 90-108: the loop over the cells from cell i on.  A cell whose update
\* raises (ZeroDivisionError at line 96, OverflowError in I_cell ** 2 at line 108)
\* ends the call with the writes made so far left in self.
RECURSIVE AdvCellLoop(_, _, _, _, _, _)
AdvCellBody(a, i, I_cell, dt_s, V_cells, Q_nodes, c) ==
    IF c.raised
    THEN [raised |-> TRUE, at |-> i, a |-> a, V_cells |-> V_cells, Q_nodes |-> Q_nodes]
    ELSE IF PowRaises(I_cell)
    THEN [raised |-> TRUE, at |-> i, a |-> AdvCellWrite(a, i, c),
          V_cells |-> V_cells, Q_nodes |-> Q_nodes]
    ELSE AdvCellLoop(AdvCellWrite(a, i, c), i + 1, I_cell, dt_s,
                     Append(V_cells, AdvVTerm(a, i, I_cell, c)),
                     Append(Q_nodes,
                            AdvNodeHeat(I_cell,
                                TempAdjustedResistances(a.cell_params[i], a.T[i]), a.Np)))

AdvCellLoop(a, i, I_cell, dt_s, V_cells, Q_nodes) ==
    IF i > a.Ns
    THEN [raised |-> FALSE, at |-> 0, a |-> a, V_cells |-> V_cells, Q_nodes |-> Q_nodes]
    ELSE AdvCellBody(a, i, I_cell, dt_s, V_cells, Q_nodes,
                     StepVoltageStates(a.cell_params[i], I_cell, dt_s,
                                       a.V_rc1[i], a.T[i], a.soc[i]))

\* step, lines 119-127: every cell's parameters aged in place at its node's new
\* temperature, and its throughput counted
AdvAge(a, dAh) ==
    [a EXCEPT
        !.cell_params = [i \in 1..a.Ns |->
            LET c == a.cell_params[i]
                n == ApplyAging(c.capacity_ah, c.R0_ohm, c.R1_ohm, dAh, a.T[i], a.advp.aging)
            IN  [c EXCEPT !.capacity_ah = n.capacity_ah, !.R0_ohm = n.R0_ohm,
                          !.R1_ohm = n.R1_ohm]],
        !.throughput_ah = [i \in 1..a.Ns |-> a.throughput_ah[i] + dAh]]

\* step, lines 110-115: passive balancing on the capacities, then the thermal update
AdvBalanceAndHeat(a, I_pack_a, dt_s, Q_nodes) ==
    [a EXCEPT
        !.soc = ApplyPassiveBalancing(a.soc, [i \in 1..a.Ns |-> a.cell_params[i].capacity_ah],
                                      I_pack_a, dt_s, a.advp.balancing),
        !.T = NetworkStep(a.T, Q_nodes, dt_s, a.net)]

RECURSIVE SeqMax(_)
SeqMax(q) == IF Len(q) = 1 THEN q[1] ELSE Max(Head(q), SeqMax(Tail(q)))

\* step, lines 129-138: the telemetry row of the state a reached
AdvRow(a, I_pack_a, V_pack) ==
    [v_pack_v   |-> V_pack,
     i_pack_a   |-> I_pack_a,
     soc        |-> SeqMean(a.soc),
     temp_k     |-> SeqMean(a.T),
     temp_max_k |-> SeqMax(a.T),
     power_w    |-> TDiv(TDiv(V_pack, 1000) * I_pack_a, 10000)]

\* step, lines 129-138, on the state a the call leaves
AdvReturn(a, I_pack_a, V_pack) ==
    [raised |-> FALSE, at |-> 0, a |-> a, row |-> AdvRow(a, I_pack_a, V_pack)]

\* step after the loop over the cells
AdvAfterLoop(I_pack_a, I_cell, dt_s, l) ==
    IF l.raised
    THEN [raised |-> TRUE, at |-> l.at, a |-> l.a, row |-> NoRow]
    ELSE AdvReturn(AdvAge(AdvBalanceAndHeat(l.a, I_pack_a, dt_s, l.Q_nodes),
                          TDiv(Abs(I_cell) * dt_s, 36000)),
                   I_pack_a, SeqSum(l.V_cells))

\* BatteryPackAdvanced.step: [raised, at, a, row]
AdvStepResult(a, I_pack_a, dt_s) ==
    AdvAfterLoop(I_pack_a, TDiv(I_pack_a, Max(1, a.Np)), dt_s,
                 AdvCellLoop(a, 1, TDiv(I_pack_a, Max(1, a.Np)), dt_s, <<>>, <<>>))

\* Inputs
DefaultCell == CHOOSE c \in CellConfigs : c.capacity_ah = 3000

ZeroCapacityCell == CHOOSE c \in CellConfigs : c.capacity_ah = 0

\* three cells in series, one string
AdvPackParams ==
    [series_cells |-> 3, parallel_cells |-> 1, max_current_a |-> 1200,
     min_soc |-> 100, max_soc |-> 900]

\* outcomes of the generator in make_varied_cells: a wide spread and none
WideDraw ==
    <<[cap |-> 700, R0 |-> 1100, R1 |-> 900], [cap |-> 1000, R0 |-> 1000, R1 |-> 1000],
      [cap |-> 1300, R0 |-> 900, R1 |-> 1100]>>

FlatDraw == [i \in 1..3 |-> [cap |-> 1000, R0 |-> 1000, R1 |-> 1000]]

\* BalancingParams(bleed_current_a=2.0)
StrongBalancing == [DefaultBalancing EXCEPT !.bleed_current_a = 20]

\* BalancingParams(enable=False)
NoBalancing == [DefaultBalancing EXCEPT !.enable = FALSE]

\* the constructor arguments tried: cell_base, draw, AdvancedPackParams
AdvSetups ==
    {[cell |-> DefaultCell, draw |-> WideDraw,
      advp |-> [thermal_mode |-> "air", use_pybamm_ocv |-> FALSE, balancing |-> DefaultBalancing, aging |-> DefaultAging]],
     [cell |-> DefaultCell, draw |-> WideDraw,
      advp |-> [thermal_mode |-> "fin", use_pybamm_ocv |-> FALSE, balancing |-> StrongBalancing, aging |-> FastAging]],
     [cell |-> DefaultCell, draw |-> WideDraw,
      advp |-> [thermal_mode |-> "liquid", use_pybamm_ocv |-> FALSE, balancing |-> NoBalancing, aging |-> FastAging]],
     [cell |-> DefaultCell, draw |-> FlatDraw,
      advp |-> [thermal_mode |-> "pcm", use_pybamm_ocv |-> FALSE, balancing |-> DefaultBalancing, aging |-> FastAging]],
     [cell |-> ZeroCapacityCell, draw |-> FlatDraw,
      advp |-> [thermal_mode |-> "air", use_pybamm_ocv |-> FALSE, balancing |-> DefaultBalancing, aging |-> DefaultAging]]}

\* pack currents: 60 A charge, 1 A (idle), 2 A (the idle threshold), 60 A
\* discharge, and one whose square is out of range
AdvCurrents == {-600, 10, 20, 600, 1500}

AdvResetSocs == {-500, 100}

\* what a failed step must leave intact
AdvSnapshot(a) ==
    [soc |-> a.soc, V_rc1 |-> a.V_rc1, throughput_ah |-> a.throughput_ah, T |-> a.T,
     cell_params |-> a.cell_params]

InitAdv ==
    /\ \E u \in AdvSetups, s \in InitialSocs :
          adv = [obj |-> AdvConstruct(u.cell, AdvPackParams, DefaultThermal, u.advp, s, u.draw,
                                     NotGenerated),
                 base |-> u.cell, row |-> NoRow, nrows |-> 0, ncalls |-> 0, last |-> NoCall]
    /\ cell_params = Idle /\ pack_params = Idle /\ thermal_params = Idle
    /\ packs = Idle /\ solo = Idle /\ last = Idle /\ ncalls = 0
    /\ ag = Idle /\ sim = Idle
    /\ own = Idle /\ lim = Idle /\ tnet = Idle /\ pair = Idle
    /\ tel = Idle /\ ecm = Idle /\ apb = Idle
    /\ qry = Idle /\ bms = Idle /\ chg = Idle

\* pack.step(I_pack_a, dt_s), given its outcome r
AdvStepApply(I_pack_a, dt_s, r) ==
    adv' = [adv EXCEPT !.obj = r.a,
                       !.row = IF r.raised THEN @ ELSE r.row,
                       !.nrows = IF r.raised THEN @ ELSE @ + 1,
                       !.ncalls = @ + 1,
                       !.last = [op |-> "step", raised |-> r.raised, at |-> r.at,
                                 pre |-> AdvSnapshot(adv.obj), I |-> I_pack_a, dt |-> dt_s]]

\* pack.step(I_pack_a, dt_s)
AdvStep(I_pack_a, dt_s) ==
    /\ adv.ncalls < MaxAdvCalls
    /\ AdvStepApply(I_pack_a, dt_s, AdvStepResult(adv.obj, I_pack_a, dt_s))
    /\ UNCHANGED <<lastVars, packVars, ag, sim, laterVars>>

\* pack.reset(initial_soc)
AdvReset(initial_soc) ==
    /\ adv.ncalls < MaxAdvCalls
    /\ adv' = [adv EXCEPT !.obj = AdvResetState(adv.obj, initial_soc),
                          !.ncalls = @ + 1,
                          !.last = [op |-> "reset", s |-> initial_soc,
                                    pre |-> AdvSnapshot(adv.obj)]]
    /\ UNCHANGED <<lastVars, packVars, ag, sim, laterVars>>

NextAdv ==
    \/ \E I \in AdvCurrents, dt \in Steps : AdvStep(I, dt)
    \/ \E s \in AdvResetSocs : AdvReset(s)

\* One BatteryPackAdvanced instance
SpecAdv == InitAdv /\ [][NextAdv]_vars

\* C3: a failed BatteryPackAdvanced.step leaves the prior state intact: after a
\* step that raised, the SOC, RC-voltage and throughput vectors, the node
\* temperatures and every cell's CellParams equal their values before the call
C3_FailedStepLeavesState ==
    (adv.last.op = "step" /\ adv.last.raised) => AdvSnapshot(adv.obj) = adv.last.pre

\* C25: BatteryPackAdvanced.reset(s) sets every cell's SOC to clip(s, 0, 1), every
\* RC voltage and throughput counter to 0 and every node to the ambient
\* temperature, and leaves every cell's capacity_ah, R0_ohm and R1_ohm, and the
\* rest of its parameters, as the steps before it had aged them
C25_AgingPersistsAcrossReset ==
    adv.last.op = "reset" =>
        \A i \in 1..adv.obj.Ns :
            /\ adv.obj.soc[i] = Clip(adv.last.s, 0, ONE)
            /\ adv.obj.V_rc1[i] = 0
            /\ adv.obj.throughput_ah[i] = 0
            /\ adv.obj.T[i] = adv.obj.tp.T_ambient_k
            /\ adv.obj.cell_params[i] = adv.last.pre.cell_params[i]

\* C25 witness: a reset of a pack that had counted throughput, whose cells'
\* parameters are no longer those any construction generates
C25_ResetOfAgedPack ==
    /\ adv.last.op = "reset"
    /\ adv.last.pre.throughput_ah[1] > 0
    /\ \A u \in AdvSetups :
          adv.obj.cell_params # MakeVariedCells(u.cell, adv.obj.Ns, u.draw)

\* C9: with positive cell capacities, after construction and any sequence of step
\* and reset calls every component of the SOC vector lies in [0,1], and so does
\* the mean SOC of each telemetry row
C9_AdvSocBounded ==
    (\A i \in 1..adv.obj.Ns : adv.obj.cell_params[i].capacity_ah > 0) =>
        /\ \A i \in 1..adv.obj.Ns : adv.obj.soc[i] >= 0 /\ adv.obj.soc[i] <= ONE
        /\ adv.row # NoRow => (adv.row.soc >= 0 /\ adv.row.soc <= ONE)

\* the SOC vector after the electrical advance of the last step
AdvLastAdvanced ==
    [i \in 1..adv.obj.Ns |->
        StepVoltageStates(adv.last.pre.cell_params[i],
                          TDiv(adv.last.I, Max(1, adv.obj.Np)), adv.last.dt,
                          adv.last.pre.V_rc1[i], adv.last.pre.T[i], adv.last.pre.soc[i]).soc]

\* C9 witness: in the last step, which returned, balancing bled a cell by more
\* than the SOC the electrical advance had left it, and the cell ended at 0
C9_BledToZero ==
    /\ adv.last.op = "step"
    /\ ~adv.last.raised
    /\ \A i \in 1..adv.obj.Ns : adv.last.pre.cell_params[i].capacity_ah > 0
    /\ \E i \in 1..adv.obj.Ns :
          /\ AdvLastAdvanced[i] > 0
          /\ adv.obj.soc[i] = 0
          /\ AdvLastAdvanced[i]
                - TDiv(adv.obj.advp.balancing.bleed_current_a * adv.last.dt,
                       Max(1, adv.last.pre.cell_params[i].capacity_ah * 36)) < 0

\* C18: passive balancing acts only when |I_pack| is below the idle threshold:
\* after a step whose |I_pack| is not below idle_current_threshold_a, or with
\* balancing disabled, the SOC vector is the one the electrical advance produced
C18_NoBleedAtOrAboveThreshold ==
    (/\ adv.last.op = "step"
     /\ ~adv.last.raised
     /\ \/ ~adv.obj.advp.balancing.enable
        \/ Abs(adv.last.I) >= adv.obj.advp.balancing.idle_current_threshold_a) =>
        adv.obj.soc = AdvLastAdvanced

-----------------------------------------------------------------------------
(* simulation.py: Simulator over a BatteryPack *)

\* the floor of dt in Simulator.run, 1e-9 s: the smallest positive time step
DT_EPS == 1

\* np.trapz(y, t) over the rows from index i on
RECURSIVE TrapzFrom(_, _, _)
TrapzFrom(y, t, i) ==
    IF i >= Len(y) THEN 0
    ELSE TDiv((t[i + 1] - t[i]) * (y[i] + y[i + 1]), 2) + TrapzFrom(y, t, i + 1)

\* np.trapz(np.maximum(sign * power_w, 0.0), time_s) / 3600.0, in mWh
EnergyWh(rows, sign) ==
    TDiv(TrapzFrom([i \in 1..Len(rows) |-> Max(sign * rows[i].power_w, 0)],
                   [i \in 1..Len(rows) |-> rows[i].time_s], 1),
         3600)

\* int(np.argmax(mask)): the index of the first True, 1 when there is none
RECURSIVE ArgMaxFrom(_, _)
ArgMaxFrom(mask, i) ==
    IF i > Len(mask) THEN 1 ELSE IF mask[i] THEN i ELSE ArgMaxFrom(mask, i + 1)

\* round_trip_efficiency, lines 50-53: the charge rows kept
TruncateCharge(df_chg, initial_soc) ==
    LET mask == [i \in 1..Len(df_chg) |-> df_chg[i].soc <= initial_soc]
    IN  IF \E i \in 1..Len(df_chg) : mask[i]
        THEN SubSeq(df_chg, 1, ArgMaxFrom(mask, 1))
        ELSE df_chg

\* RTE = 100.0 * (energy_out_wh / energy_in_wh) with no guard: a float division
\* by 0.0 raises ZeroDivisionError
RtePercentUnguarded(energy_out_wh, energy_in_wh) ==
    IF energy_in_wh = 0
    THEN [raised |-> TRUE, RTE |-> 0]
    ELSE [raised |-> FALSE, RTE |-> TDiv(10000 * energy_out_wh, energy_in_wh)]

\* round_trip_efficiency, line 56: RTE in 1/100 percent, and whether the
\* expression raised; 1e-9 Wh lies below the unit of energy
RtePercent(energy_out_wh, energy_in_wh) ==
    IF energy_in_wh > 0
    THEN [raised |-> FALSE, RTE |-> TDiv(10000 * energy_out_wh, energy_in_wh)]
    ELSE [raised |-> FALSE, RTE |-> 0]

\* Inputs: pack currents of a cycle, and sample spacings of 1 s and 1 min
SimCurrents == {-300, 0, 300, 600}

SimSpacings == {1000, 60000}

RECURSIVE CyclesOfLen(_)
CyclesOfLen(n) ==
    IF n = 1
    THEN {<<[t |-> 0, I |-> I]>> : I \in SimCurrents}
    ELSE {Append(c, [t |-> c[Len(c)].t + d, I |-> I]) :
              c \in CyclesOfLen(n - 1), d \in SimSpacings, I \in SimCurrents}

\* DriveCycle values: time strictly increasing from 0
Cycles == UNION {CyclesOfLen(n) : n \in 2..MaxSamples}

SimPackParams ==
    [series_cells |-> 2, parallel_cells |-> 3, max_current_a |-> 1200,
     min_soc |-> 100, max_soc |-> 900]

InitSim ==
    /\ \E c \in Cycles, s \in {500, 800} :
          sim = [cell |-> DefaultCell, pp |-> SimPackParams, tp |-> DefaultThermal,
                 state |-> PackConstructState(DefaultThermal, 800),
                 cycle |-> c, initial_soc |-> s, pc |-> "idle", k |-> 1, prev_t |-> 0,
                 rows |-> <<>>, df_dis |-> <<>>, energy_out_wh |-> 0, df_chg_run |-> <<>>,
                 result |-> NoRow, calls |-> <<>>]
    /\ cell_params = Idle /\ pack_params = Idle /\ thermal_params = Idle
    /\ packs = Idle /\ solo = Idle /\ last = Idle /\ ncalls = 0
    /\ adv = Idle /\ ag = Idle
    /\ own = Idle /\ lim = Idle /\ tnet = Idle /\ pair = Idle
    /\ tel = Idle /\ ecm = Idle /\ apb = Idle
    /\ qry = Idle /\ bms = Idle /\ chg = Idle

\* round_trip_efficiency, lines 40-41: reset the pack and enter run(cycle)
RteBegin ==
    /\ sim.pc = "idle"
    /\ sim' = [sim EXCEPT !.state = PackResetState(sim.state, sim.tp, sim.initial_soc),
                          !.pc = "discharge", !.k = 1, !.prev_t = sim.cycle[1].t,
                          !.rows = <<>>]
    /\ UNCHANGED <<lastVars, packVars, adv, ag, laterVars>>

\* dt = t - prev_t, without the floor
RunDtNoFloor(t, prev_t) == t - prev_t

\* Simulator.run, line 31: dt = max(1e-9, float(t - prev_t))
RunDt(t, prev_t) == Max(DT_EPS, t - prev_t)

\* Simulator.run, lines 32-35, given the outcome r of pack.step(I, dt); sim.calls
\* records the calls made on the pack
RunSampleApply(t, I, dt, r) ==
    sim' = [sim EXCEPT !.state = r.state,
                       !.rows = Append(@, r.row @@ [time_s |-> t]),
                       !.calls = Append(@, [I |-> I, dt |-> dt]),
                       !.prev_t = t, !.k = @ + 1]

\* Simulator.run, lines 30-35, for the sample (t, I)
RunSampleAt(t, I) ==
    RunSampleApply(t, I, RunDt(t, sim.prev_t),
                   PackStepResult(sim.state, sim.cell, sim.pp, sim.tp, I,
                                  RunDt(t, sim.prev_t)))

\* Simulator.run, one pass of the loop: sample k of the cycle (negated in the
\* charge phase)
RunSample ==
    /\ sim.pc \in {"discharge", "charge", "run"}
    /\ sim.k <= Len(sim.cycle)
    /\ RunSampleAt(sim.cycle[sim.k].t,
                   IF sim.pc = "charge" THEN -sim.cycle[sim.k].I ELSE sim.cycle[sim.k].I)
    /\ UNCHANGED <<lastVars, packVars, adv, ag, laterVars>>

\* round_trip_efficiency, lines 43-48: the discharge run has returned
RteTurn ==
    /\ sim.pc = "discharge"
    /\ sim.k > Len(sim.cycle)
    /\ sim' = [sim EXCEPT !.df_dis = sim.rows,
                          !.energy_out_wh = EnergyWh(sim.rows, 1),
                          !.state = PackResetState(sim.state, sim.tp,
                                                   sim.rows[Len(sim.rows)].soc),
                          !.pc = "charge", !.k = 1, !.prev_t = sim.cycle[1].t,
                          !.rows = <<>>]
    /\ UNCHANGED <<lastVars, packVars, adv, ag, laterVars>>

\* round_trip_efficiency, lines 56-63, given the charge rows kept, their energy
\* and the outcome r of the RTE expression: the SimulationResult, or the exception
RteFinishApply(df_chg, energy_in_wh, r) ==
    sim' = [sim EXCEPT !.df_chg_run = sim.rows,
                       !.pc = "done",
                       !.result = [raised        |-> r.raised,
                                   charge        |-> df_chg,
                                   discharge     |-> sim.df_dis,
                                   energy_out_wh |-> sim.energy_out_wh,
                                   energy_in_wh  |-> energy_in_wh,
                                   RTE_percent   |-> r.RTE]]

\* round_trip_efficiency, lines 55-63, given the charge rows kept and their energy
RteFinishWith(df_chg, energy_in_wh) ==
    RteFinishApply(df_chg, energy_in_wh, RtePercent(sim.energy_out_wh, energy_in_wh))

\* round_trip_efficiency, lines 50-63: the charge run has returned
RteFinish ==
    /\ sim.pc = "charge"
    /\ sim.k > Len(sim.cycle)
    /\ RteFinishWith(TruncateCharge(sim.rows, sim.initial_soc),
                     EnergyWh(TruncateCharge(sim.rows, sim.initial_soc), -1))
    /\ UNCHANGED <<lastVars, packVars, adv, ag, laterVars>>

NextSim == RteBegin \/ RunSample \/ RteTurn \/ RteFinish

\* One Simulator running round_trip_efficiency(cycle, initial_soc)
SpecSim == InitSim /\ [][NextSim]_vars

-----------------------------------------------------------------------------
(* Simulator.run called on its own, on cycles whose timestamps may repeat or
   decrease *)

RunSpacings == {-1000, 0, 1000, 60000}

RunCurrents == {-300, 600}

RECURSIVE RunCyclesOfLen(_)
RunCyclesOfLen(n) ==
    IF n = 1
    THEN {<<[t |-> 0, I |-> I]>> : I \in RunCurrents}
    ELSE {Append(c, [t |-> c[Len(c)].t + d, I |-> I]) :
              c \in RunCyclesOfLen(n - 1), d \in RunSpacings, I \in RunCurrents}

\* DriveCycle values as the dataclass admits them: no order on time_s
RunCycles == UNION {RunCyclesOfLen(n) : n \in 1..MaxSamples}

InitRun ==
    /\ \E c \in RunCycles :
          sim = [cell |-> DefaultCell, pp |-> SimPackParams, tp |-> DefaultThermal,
                 state |-> PackConstructState(DefaultThermal, 800),
                 cycle |-> c, initial_soc |-> 800, pc |-> "idle", k |-> 1, prev_t |-> 0,
                 rows |-> <<>>, df_dis |-> <<>>, energy_out_wh |-> 0, df_chg_run |-> <<>>,
                 result |-> NoRow, calls |-> <<>>]
    /\ cell_params = Idle /\ pack_params = Idle /\ thermal_params = Idle
    /\ packs = Idle /\ solo = Idle /\ last = Idle /\ ncalls = 0
    /\ adv = Idle /\ ag = Idle
    /\ own = Idle /\ lim = Idle /\ tnet = Idle /\ pair = Idle
    /\ tel = Idle /\ ecm = Idle /\ apb = Idle
    /\ qry = Idle /\ bms = Idle /\ chg = Idle

\* Simulator.run, lines 28-29: rows = []; prev_t = cycle.time_s[0]
RunBegin ==
    /\ sim.pc = "idle"
    /\ sim' = [sim EXCEPT !.pc = "run", !.k = 1, !.prev_t = sim.cycle[1].t, !.rows = <<>>]
    /\ UNCHANGED <<lastVars, packVars, adv, ag, laterVars>>

\* Simulator.run, line 36: return pd.DataFrame(rows)
RunReturn ==
    /\ sim.pc = "run"
    /\ sim.k > Len(sim.cycle)
    /\ sim' = [sim EXCEPT !.pc = "returned", !.result = sim.rows]
    /\ UNCHANGED <<lastVars, packVars, adv, ag, laterVars>>

NextRun == RunBegin \/ RunSample \/ RunReturn

\* One Simulator running run(cycle)
SpecRun == InitRun /\ [][NextRun]_vars

\* C13: Simulator.run calls pack.step once per sample, in order, with the
\* sample's current and dt_k = max(eps, t_k - t_(k-1)) (the first dt is eps), so
\* every dt is positive also when timestamps repeat or decrease; row k carries
\* time_s = t_k and the returned frame has one row per sample
C13_OneStepPerSample ==
    sim.pc \in {"run", "returned"} =>
        /\ Len(sim.calls) = sim.k - 1
        /\ Len(sim.rows) = sim.k - 1
        /\ \A j \in 1..Len(sim.calls) :
              /\ sim.calls[j].I = sim.cycle[j].I
              /\ sim.calls[j].dt > 0
              /\ sim.calls[j].dt =
                    (IF j > 1 /\ sim.cycle[j].t - sim.cycle[j - 1].t > DT_EPS
                     THEN sim.cycle[j].t - sim.cycle[j - 1].t ELSE DT_EPS)
              /\ sim.rows[j].time_s = sim.cycle[j].t
              /\ sim.rows[j].i_pack_a = sim.cycle[j].I
        /\ sim.pc = "returned" =>
              (Len(sim.result) = Len(sim.cycle) /\ sim.result = sim.rows)

\* C13 witness: run has returned on a cycle of three samples whose second
\* timestamp repeats the first and whose third lies before it
C13_ReturnedOnDisorderedCycle ==
    /\ sim.pc = "returned"
    /\ Len(sim.cycle) = 3
    /\ sim.cycle[2].t = sim.cycle[1].t
    /\ sim.cycle[3].t < sim.cycle[2].t
    /\ Len(sim.result) = 3

-----------------------------------------------------------------------------
(* Properties of Simulator.round_trip_efficiency *)

\* the index of the first row with SOC >= soc, 0 when there is none
RECURSIVE FirstReaching(_, _, _)
FirstReaching(rows, soc, i) ==
    IF i > Len(rows) THEN 0
    ELSE IF rows[i].soc >= soc THEN i ELSE FirstReaching(rows, soc, i + 1)

\* C6: when the negated-profile run has a first sample j with SOC >= initial_soc,
\* the returned charge rows are exactly the rows up to and including j, and
\* energy_in_wh is the integral over those rows.
C6_TruncatedAtFirstReaching ==
    sim.pc = "done" =>
        LET j == FirstReaching(sim.df_chg_run, sim.initial_soc, 1)
        IN  j > 0 =>
              /\ sim.result.charge = SubSeq(sim.df_chg_run, 1, j)
              /\ sim.result.energy_in_wh = EnergyWh(SubSeq(sim.df_chg_run, 1, j), -1)

\* the cycle never charges and discharges somewhere
NetDischarging(cycle) ==
    /\ \A i \in 1..Len(cycle) : cycle[i].I >= 0
    /\ \E i \in 1..Len(cycle) : cycle[i].I > 0

\* C7: for a net-discharging cycle that delivered positive energy, the returned
\* charge phase ends within one SOC unit of initial_soc and RTE_percent lies in
\* (0, 100].
C7_RecoversAndBounded ==
    (/\ sim.pc = "done"
     /\ NetDischarging(sim.cycle)
     /\ sim.result.energy_out_wh > 0) =>
        /\ Abs(sim.result.charge[Len(sim.result.charge)].soc - sim.initial_soc) <= 1
        /\ sim.result.RTE_percent > 0
        /\ sim.result.RTE_percent <= 10000

-----------------------------------------------------------------------------
(* CellParams objects by reference: cell_base and the records that
   make_varied_cells creates live in one store, own.heap; a pack holds the
   references of its cells' records and step ages the records in place. *)

MaxOwnCalls == 3

OwnPacks == {1, 2}

\* PackParams(series_cells=2, parallel_cells=1)
OwnPackParams == [AdvPackParams EXCEPT !.series_cells = 2]

OwnDraw == <<[cap |-> 700, R0 |-> 1100, R1 |-> 900], [cap |-> 1300, R0 |-> 900, R1 |-> 1100]>>

\* AdvancedPackParams(balancing=..., aging=AgingParams(capacity_fade_per_ah=0.1, ...))
OwnAdvParams ==
    {[thermal_mode |-> "air", use_pybamm_ocv |-> FALSE, balancing |-> DefaultBalancing,
      aging |-> FastAging],
     [thermal_mode |-> "air", use_pybamm_ocv |-> FALSE, balancing |-> NoBalancing,
      aging |-> DefaultAging]}

\* cells.append(base): every cell refers to the record it was given
MakeVariedCellsShared(heap, base_ref, Ns, draw) ==
    [heap |-> heap, refs |-> [i \in 1..Ns |-> base_ref]]

\* make_varied_cells, lines 24-39: c = CellParams(...) creates one new object per
\* cell, holding the scaled values; the list holds their references
MakeVariedCellsAlloc(heap, base_ref, Ns, draw) ==
    [heap |-> heap \o MakeVariedCells(heap[base_ref], Ns, draw),
     refs |-> [i \in 1..Ns |-> Len(heap) + i]]

\* the pack as its methods see it: self.cell_params[i] read through its reference
OwnView(heap, pk) ==
    [pk.obj EXCEPT !.cell_params = [i \in 1..Len(pk.refs) |-> heap[pk.refs[i]]]]

\* step, lines 124-126: the three assignments to the object c refers to
OwnAgeWrite(heap, r, n) ==
    [heap EXCEPT ![r] = [@ EXCEPT !.capacity_ah = n.capacity_ah, !.R0_ohm = n.R0_ohm,
                                  !.R1_ohm = n.R1_ohm]]

\* step, lines 119-127: the aging loop from cell i on, writing through the references
RECURSIVE OwnAgeLoop(_, _, _, _, _, _)
OwnAgeLoop(heap, refs, i, dAh, T, p) ==
    IF i > Len(refs) THEN heap
    ELSE OwnAgeLoop(OwnAgeWrite(heap, refs[i],
                        ApplyAging(heap[refs[i]].capacity_ah, heap[refs[i]].R0_ohm,
                                   heap[refs[i]].R1_ohm, dAh, T[i], p)),
                    refs, i + 1, dAh, T, p)

\* step on the pack pk over the store, given the outcome l of the loop over the
\* cells: [heap, obj]
OwnAfterLoop(heap, pk, I_pack_a, dt_s, dAh, l) ==
    IF l.raised
    THEN [heap |-> heap, obj |-> l.a]
    ELSE LET b == AdvBalanceAndHeat(l.a, I_pack_a, dt_s, l.Q_nodes)
         IN  [heap |-> OwnAgeLoop(heap, pk.refs, 1, dAh, b.T, b.advp.aging),
              obj  |-> [b EXCEPT !.throughput_ah =
                                    [i \in 1..b.Ns |-> b.throughput_ah[i] + dAh]]]

\* BatteryPackAdvanced.step on the pack pk over the store
OwnStepResult(heap, pk, I_pack_a, dt_s) ==
    OwnAfterLoop(heap, pk, I_pack_a, dt_s,
                 TDiv(Abs(TDiv(I_pack_a, Max(1, pk.obj.Np))) * dt_s, 36000),
                 AdvCellLoop(OwnView(heap, pk), 1, TDiv(I_pack_a, Max(1, pk.obj.Np)),
                             dt_s, <<>>, <<>>))

InitOwn ==
    /\ \E advp \in OwnAdvParams :
          own = [heap |-> <<DefaultCell>>, base |-> 1, advp |-> advp,
                 packs |-> [p \in OwnPacks |-> NoPack],
                 solo |-> [p \in OwnPacks |-> NoPack], ncalls |-> 0]
    /\ cell_params = Idle /\ pack_params = Idle /\ thermal_params = Idle
    /\ packs = Idle /\ solo = Idle /\ last = Idle /\ ncalls = 0
    /\ adv = Idle /\ ag = Idle /\ sim = Idle
    /\ lim = Idle /\ tnet = Idle /\ pair = Idle
    /\ tel = Idle /\ ecm = Idle /\ apb = Idle
    /\ qry = Idle /\ bms = Idle /\ chg = Idle

\* BatteryPackAdvanced(cell_base, ...), given what make_varied_cells returned
OwnConstructApply(p, m) ==
    own' = [own EXCEPT
        !.heap = m.heap,
        !.packs[p] = [constructed |-> TRUE, refs |-> m.refs,
                      obj |-> AdvConstruct(own.heap[own.base], OwnPackParams, DefaultThermal,
                                           own.advp, 800, OwnDraw, NotGenerated)],
        !.solo[p] = [constructed |-> TRUE,
                     obj |-> AdvConstruct(DefaultCell, OwnPackParams, DefaultThermal,
                                          own.advp, 800, OwnDraw, NotGenerated)]]

\* pack p = BatteryPackAdvanced(cell_base, ...) on the shared cell_base
OwnConstruct(p) ==
    /\ ~own.packs[p].constructed
    /\ OwnConstructApply(p, MakeVariedCellsAlloc(own.heap, own.base, OwnPackParams.series_cells,
                                              OwnDraw))
    /\ UNCHANGED <<lastVars, packVars, adv, ag, sim, lim, tnet, pair>>

\* pack p .step(I_pack_a, dt_s), given its outcome r; the twin takes the same step
OwnStepApply(p, I_pack_a, dt_s, r) ==
    own' = [own EXCEPT
        !.heap = r.heap,
        !.packs[p].obj = r.obj,
        !.solo[p].obj = AdvStepResult(own.solo[p].obj, I_pack_a, dt_s).a,
        !.ncalls = @ + 1]

OwnStep(p, I_pack_a, dt_s) ==
    /\ own.packs[p].constructed
    /\ own.ncalls < MaxOwnCalls
    /\ OwnStepApply(p, I_pack_a, dt_s, OwnStepResult(own.heap, own.packs[p], I_pack_a, dt_s))
    /\ UNCHANGED <<lastVars, packVars, adv, ag, sim, lim, tnet, pair>>

NextOwn ==
    \/ \E p \in OwnPacks : OwnConstruct(p)
    \/ \E p \in OwnPacks, I \in {-600, 600}, dt \in Steps : OwnStep(p, I, dt)

\* Two BatteryPackAdvanced instances built from one cell_base
SpecOwn == InitOwn /\ [][NextOwn]_vars

\* C11: each cell's CellParams record is owned by that cell alone: under every
\* interleaving of steps on two packs built from one cell_base, cell_base keeps
\* its values and every cell's record holds exactly what aging that cell alone
\* (in a copy of the pack driven by itself on values) has made of it
C11_CellRecordsOwned ==
    /\ own.heap[own.base] = DefaultCell
    /\ \A p \in OwnPacks :
          own.packs[p].constructed =>
              OwnView(own.heap, own.packs[p]) = own.solo[p].obj

\* C11 witness: both packs are built and the first cell of pack 1 has aged while
\* the first cell of pack 2 has not
C11_OneAged ==
    /\ own.packs[1].constructed /\ own.packs[2].constructed
    /\ own.heap[own.packs[1].refs[1]].capacity_ah
         < own.heap[own.packs[2].refs[1]].capacity_ah
    /\ own.heap[own.packs[2].refs[1]].capacity_ah = TDiv(DefaultCell.capacity_ah * 700, ONE)

\* C14: round_trip_efficiency never fails with a division error: it returns, with
\* RTE_percent = 0 whenever energy_in_wh is zero and 100 * energy_out_wh /
\* energy_in_wh otherwise
C14_NoDivisionError ==
    sim.pc = "done" =>
        /\ ~sim.result.raised
        /\ sim.result.energy_in_wh >= 0
        /\ sim.result.energy_in_wh = 0 => sim.result.RTE_percent = 0
        /\ sim.result.energy_in_wh > 0 =>
              sim.result.RTE_percent
                = TDiv(10000 * sim.result.energy_out_wh, sim.result.energy_in_wh)

\* C14 witness: the call returned 0 for a charge series truncated to a single
\* row, after a discharge that delivered energy
C14_ZeroEnergyIn ==
    /\ sim.pc = "done"
    /\ Len(sim.result.charge) = 1
    /\ sim.result.energy_in_wh = 0
    /\ sim.result.energy_out_wh > 0
    /\ sim.result.RTE_percent = 0

-----------------------------------------------------------------------------
(* limits.py: compute_power_limits.  The bisection halves [0, max_current_a]
   BisectIters times, so every current it meets is a multiple of
   max_current_a / 2^BisectIters: in this section a current is that multiple,
   a whole number k standing for max_current_a * k / 2^BisectIters. *)

\* for _ in range(30)
BisectIters == 30

\* the tolerance of can_discharge and can_charge on the voltage, 1e-6 V
V_TOL == 1

RECURSIVE Pow2(_)
Pow2(n) == IF n = 0 THEN 1 ELSE 2 * Pow2(n - 1)

\* floor(a * k / 2^30) for 0 <= a < 2^30 and 0 <= k <= 2^30, in 32-bit steps
MulShift(a, k) ==
    (a \div Pow2(15)) * (k \div Pow2(15))
      + ((a \div Pow2(15)) * (k % Pow2(15)) + (a % Pow2(15)) * (k \div Pow2(15))
           + ((a % Pow2(15)) * (k % Pow2(15))) \div Pow2(15)) \div Pow2(15)

\* the pack current k stands for, in 0.1 A, rounded toward zero
GridCurrent(pp, k) ==
    IF k >= 0 THEN MulShift(pp.max_current_a, k) ELSE -MulShift(pp.max_current_a, -k)

\* (R0 + R1) * I_cell for the pack current k, given the resistance sum
OhmicDrop(R, pp, k) ==
    IF k >= 0 THEN TDiv(MulShift(R * pp.max_current_a, k), Max(1, pp.parallel_cells))
              ELSE -TDiv(MulShift(R * pp.max_current_a, -k), Max(1, pp.parallel_cells))

\* _voltage_at_current(pack, I_a, soc) for the pack q = [cell, pp, T_k, soc]
VoltageAtCurrent(q, k) ==
    q.pp.series_cells
      * (Ocv(q.cell, q.soc)
           - OhmicDrop(TempAdjustedResistances(q.cell, q.T_k).R0
                         + TempAdjustedResistances(q.cell, q.T_k).R1, q.pp, k))

\* can_discharge without its test of the SOC
CanDischargeNoSocTest(q, k) ==
    VoltageAtCurrent(q, k) >= q.pp.series_cells * q.cell.V_min - V_TOL

\* compute_power_limits.can_discharge; 1e-6 of SOC lies below the unit of SOC
CanDischarge(q, k) ==
    IF q.soc <= q.pp.min_soc THEN FALSE
    ELSE VoltageAtCurrent(q, k) >= q.pp.series_cells * q.cell.V_min - V_TOL

\* compute_power_limits.can_charge
CanCharge(q, k) ==
    IF q.soc >= q.pp.max_soc THEN FALSE
    ELSE VoltageAtCurrent(q, -k) <= q.pp.series_cells * q.cell.V_max + V_TOL

\* the two searches share their loop: dir is "dis" or "chg"
CanFlow(q, dir, k) == IF dir = "dis" THEN CanDischarge(q, k) ELSE CanCharge(q, k)

\* compute_power_limits, lines 41-48 and 58-65: the bisection from [lo, hi] with
\* n passes left; the result is lo
RECURSIVE Bisect(_, _, _, _, _)
\* a pass that moves the wrong end of the bracket
BisectPassSwapped(q, dir, lo, hi, n, mid) ==
    IF CanFlow(q, dir, mid) THEN Bisect(q, dir, lo, mid, n - 1)
                            ELSE Bisect(q, dir, mid, hi, n - 1)

\* one pass, lines 43-47, given mid
BisectPass(q, dir, lo, hi, n, mid) ==
    IF CanFlow(q, dir, mid) THEN Bisect(q, dir, mid, hi, n - 1)
                            ELSE Bisect(q, dir, lo, mid, n - 1)

Bisect(q, dir, lo, hi, n) ==
    IF n = 0 THEN lo ELSE BisectPass(q, dir, lo, hi, n, lo + (hi - lo) \div 2)

\* P = I * _voltage_at_current(pack, I, soc), in W, for the current k
LimitPower(q, k, V) == TDiv(GridCurrent(q.pp, k) * TDiv(V, 1000), 10000)

\* compute_power_limits, lines 48-49 and 65-68, given the two currents found
PowerLimitsOf(q, I_dis_max, I_chg_max) ==
    [I_dis_max |-> I_dis_max, I_chg_max |-> I_chg_max,
     max_discharge_w |-> LimitPower(q, I_dis_max, VoltageAtCurrent(q, I_dis_max)),
     max_charge_w    |-> LimitPower(q, I_chg_max, VoltageAtCurrent(q, -I_chg_max))]

\* compute_power_limits(pack, soc)
ComputePowerLimits(q) ==
    PowerLimitsOf(q, Bisect(q, "dis", 0, Pow2(BisectIters), BisectIters),
                     Bisect(q, "chg", 0, Pow2(BisectIters), BisectIters))

\* Inputs: the packs, pack temperatures and SOC arguments tried
LimCells == {DefaultCell, [DefaultCell EXCEPT !.R0_ohm = 0, !.R1_ohm = 0]}

LimPacks ==
    {[series_cells |-> n[1], parallel_cells |-> n[2], max_current_a |-> n[3],
      min_soc |-> 100, max_soc |-> 900] : n \in {<<1, 1, 1200>>, <<2, 3, 1200>>, <<2, 3, 6000>>}}

LimTemps == {273150, 298150, 318150}

LimSocs == {0, 100, 101, 200, 500, 800, 899, 900, 1000}

InitLim ==
    /\ \E c \in LimCells, pp \in LimPacks, T \in LimTemps, s \in LimSocs :
          lim = [q |-> [cell |-> c, pp |-> pp, T_k |-> T, soc |-> s],
                 pc |-> "ready", limits |-> NoRow]
    /\ cell_params = Idle /\ pack_params = Idle /\ thermal_params = Idle
    /\ packs = Idle /\ solo = Idle /\ last = Idle /\ ncalls = 0
    /\ adv = Idle /\ ag = Idle /\ sim = Idle
    /\ own = Idle /\ tnet = Idle /\ pair = Idle
    /\ tel = Idle /\ ecm = Idle /\ apb = Idle
    /\ qry = Idle /\ bms = Idle /\ chg = Idle

\* limits = compute_power_limits(pack, soc)
LimitsCompute ==
    /\ lim.pc = "ready"
    /\ lim' = [lim EXCEPT !.pc = "done", !.limits = ComputePowerLimits(lim.q)]
    /\ UNCHANGED <<lastVars, packVars, adv, ag, sim, own, tnet, pair>>

NextLim == LimitsCompute

\* compute_power_limits called on one pack
SpecLim == InitLim /\ [][NextLim]_vars

\* C15: at or below the minimum SOC no discharge is allowed and at or above the
\* maximum SOC no charge, whatever the voltage headroom: soc <= min_soc gives
\* max_discharge_w = 0 and soc >= max_soc gives max_charge_w = 0
C15_NoPowerBeyondSocWindow ==
    lim.pc = "done" =>
        /\ lim.q.soc <= lim.q.pp.min_soc => lim.limits.max_discharge_w = 0
        /\ lim.q.soc >= lim.q.pp.max_soc => lim.limits.max_charge_w = 0

\* C15 witness: at exactly min_soc, with voltage headroom for some discharge
\* current, the discharge limit is 0 while the charge limit is not
C15_AtMinSocWithHeadroom ==
    /\ lim.pc = "done"
    /\ lim.q.soc = lim.q.pp.min_soc
    /\ VoltageAtCurrent(lim.q, Pow2(20)) > lim.q.pp.series_cells * lim.q.cell.V_min
    /\ lim.limits.max_discharge_w = 0
    /\ lim.limits.max_charge_w > 0

\* the case C16 speaks of: SOC strictly inside the window, resistances not
\* negative, and the zero-current voltage inside [Ns*V_min, Ns*V_max]
LimInsideWindow(q) ==
    /\ q.soc > q.pp.min_soc /\ q.soc < q.pp.max_soc
    /\ TempAdjustedResistances(q.cell, q.T_k).R0 >= 0
    /\ TempAdjustedResistances(q.cell, q.T_k).R1 >= 0
    /\ VoltageAtCurrent(q, 0) >= q.pp.series_cells * q.cell.V_min
    /\ VoltageAtCurrent(q, 0) <= q.pp.series_cells * q.cell.V_max

\* the currents above k at which the searches are compared: k + 1, k + 2, k + 4, ...
\* up to max_current_a
GridAbove(k) == {k + Pow2(j) : j \in 0..BisectIters} \cap (0..Pow2(BisectIters))

\* the current k passes the voltage test with slack tol and no sampled current
\* above it does, unless k is the last current below max_current_a
LargestDischarge(q, k, tol) ==
    /\ VoltageAtCurrent(q, k) >= q.pp.series_cells * q.cell.V_min - tol
    /\ \/ k = Pow2(BisectIters) - 1
       \/ \A m \in GridAbove(k) :
             VoltageAtCurrent(q, m) < q.pp.series_cells * q.cell.V_min - tol

LargestCharge(q, k, tol) ==
    /\ VoltageAtCurrent(q, -k) <= q.pp.series_cells * q.cell.V_max + tol
    /\ \/ k = Pow2(BisectIters) - 1
       \/ \A m \in GridAbove(k) :
             VoltageAtCurrent(q, -m) > q.pp.series_cells * q.cell.V_max + tol

-----------------------------------------------------------------------------
(* A ThermalNetwork on its own, without sink and without heat input *)

MaxNetSteps == 2

\* ThermalNetworkParams(num_nodes=n, mass_kg_total=1.0, Cp_j_per_kgk=900.0,
\* cell_to_cell_w_per_k=0.5, cell_to_sink_w_per_k=0.0, mode=mode)
NetParams ==
    {[num_nodes |-> n, mass_kg_total |-> 1, Cp_j_per_kgk |-> 900,
      cell_to_cell_w_per_k |-> 5, cell_to_sink_w_per_k |-> 0,
      sink_temperature_k |-> 298150, mode |-> mode] : n \in 1..3, mode \in {"air", "liquid"}}

NetTemps == {280000, 298150, 330000}

\* time steps of 1 s and 10 s
NetSteps == {1000, 10000}

\* the numerators of dTdt in a step from T: what each node gains, in mW
NetworkNodeHeats(T, heat_w, np) ==
    [i \in 1..np.num_nodes |->
        NetworkNodeHeat(T, heat_w, i, np.num_nodes, np.cell_to_cell_w_per_k,
                        ModeSinkConductance(np.mode, np.cell_to_sink_w_per_k),
                        np.sink_temperature_k)]

\* ThermalNetwork(params), then self.T set to any temperature vector
InitNet ==
    /\ \E np \in NetParams :
          \E T \in [1..np.num_nodes -> NetTemps] :
              tnet = [p |-> np, T |-> T, pre |-> T, gain |-> [i \in 1..np.num_nodes |-> 0],
                      dt |-> 0, nsteps |-> 0]
    /\ cell_params = Idle /\ pack_params = Idle /\ thermal_params = Idle
    /\ packs = Idle /\ solo = Idle /\ last = Idle /\ ncalls = 0
    /\ adv = Idle /\ ag = Idle /\ sim = Idle
    /\ own = Idle /\ lim = Idle /\ pair = Idle
    /\ tel = Idle /\ ecm = Idle /\ apb = Idle
    /\ qry = Idle /\ bms = Idle /\ chg = Idle

\* network.step(np.zeros(n), dt_s)
NetStep(dt_s) ==
    /\ tnet.nsteps < MaxNetSteps
    /\ tnet' = [tnet EXCEPT
                  !.T = NetworkStep(tnet.T, [i \in 1..tnet.p.num_nodes |-> 0], dt_s, tnet.p),
                  !.pre = tnet.T,
                  !.gain = NetworkNodeHeats(tnet.T, [i \in 1..tnet.p.num_nodes |-> 0], tnet.p),
                  !.dt = dt_s,
                  !.nsteps = @ + 1]
    /\ UNCHANGED <<lastVars, packVars, adv, ag, sim, own, lim, pair>>

NextNet == \E dt \in NetSteps : NetStep(dt)

SpecNet == InitNet /\ [][NextNet]_vars

\* C17: without sink and without heat input a step conserves the thermal energy:
\* what the nodes gain sums to zero, every exchange being added to one node and
\* taken from its neighbour, and the sum of the node temperatures after the step
\* equals the sum before it up to the rounding of each node's new temperature
\* (below dt_s + 1 units per node)
C17_EnergyConserved ==
    tnet.nsteps > 0 =>
        /\ SeqSum(tnet.gain) = 0
        /\ Abs(SeqSum(tnet.T) - SeqSum(tnet.pre))
              <= tnet.p.num_nodes * (TDiv(tnet.dt, 1000) + 1)

\* C17 witness: a step of a three-node chain moved heat: the hot first node
\* cooled by more than the rounding and the middle node changed
C17_HeatRedistributed ==
    /\ tnet.nsteps > 0
    /\ tnet.p.num_nodes = 3
    /\ tnet.T[1] < tnet.pre[1] - 100
    /\ tnet.T[2] # tnet.pre[2]
    /\ tnet.T[3] > tnet.pre[3] + 100

-----------------------------------------------------------------------------
(* Two BatteryPackAdvanced instances built from the same arguments but for
   use_pybamm_ocv, True in pair.a and False in pair.b, and stepped together *)

MaxPairCalls == 2

\* AdvancedPackParams(use_pybamm_ocv=use, balancing=...)
PairAdvParams(use) ==
    {[thermal_mode |-> "air", use_pybamm_ocv |-> use, balancing |-> bal, aging |-> FastAging]
        : bal \in {DefaultBalancing, NoBalancing}}

PairCurrents == {-600, 20, 600, 1500}

InitPair ==
    /\ \E env \in OcvEnvs, bal \in {DefaultBalancing, NoBalancing} :
          pair = [env |-> env, bal |-> bal, built |-> FALSE, ctor_raised |-> FALSE,
                  a |-> NoPack, b |-> NoPack, row_a |-> NoRow, row_b |-> NoRow,
                  raised_a |-> FALSE, raised_b |-> FALSE, ncalls |-> 0]
    /\ cell_params = Idle /\ pack_params = Idle /\ thermal_params = Idle
    /\ packs = Idle /\ solo = Idle /\ last = Idle /\ ncalls = 0
    /\ adv = Idle /\ ag = Idle /\ sim = Idle
    /\ own = Idle /\ lim = Idle /\ tnet = Idle
    /\ tel = Idle /\ ecm = Idle /\ apb = Idle
    /\ qry = Idle /\ bms = Idle /\ chg = Idle

\* the two constructor calls, given what try_generate_ocv_curve did in the first
PairConstructApply(use_a, use_b, gen) ==
    IF gen.raised
    THEN pair' = [pair EXCEPT !.ctor_raised = TRUE]
    ELSE pair' = [pair EXCEPT
            !.built = TRUE,
            !.a = AdvConstruct(DefaultCell, AdvPackParams, DefaultThermal, use_a, 800,
                               WideDraw, gen),
            !.b = AdvConstruct(DefaultCell, AdvPackParams, DefaultThermal, use_b, 800,
                               WideDraw, NotGenerated)]

\* a = BatteryPackAdvanced(..., AdvancedPackParams(use_pybamm_ocv=True));
\* b = BatteryPackAdvanced(..., AdvancedPackParams(use_pybamm_ocv=False))
PairConstruct ==
    /\ ~pair.built /\ ~pair.ctor_raised
    /\ PairConstructApply(
          CHOOSE u \in PairAdvParams(TRUE) : u.balancing = pair.bal,
          CHOOSE u \in PairAdvParams(FALSE) : u.balancing = pair.bal,
          TryGenerateOcvCurve(pair.env))
    /\ UNCHANGED <<lastVars, packVars, adv, ag, sim, own, lim, tnet>>

\* a.step(I, dt) and b.step(I, dt), given their outcomes
PairStepApply(ra, rb) ==
    pair' = [pair EXCEPT !.a = ra.a, !.b = rb.a, !.row_a = ra.row, !.row_b = rb.row,
                         !.raised_a = ra.raised, !.raised_b = rb.raised,
                         !.ncalls = @ + 1]

PairStep(I_pack_a, dt_s) ==
    /\ pair.built
    /\ pair.ncalls < MaxPairCalls
    /\ PairStepApply(AdvStepResult(pair.a, I_pack_a, dt_s),
                     AdvStepResult(pair.b, I_pack_a, dt_s))
    /\ UNCHANGED <<lastVars, packVars, adv, ag, sim, own, lim, tnet>>

NextPair ==
    \/ PairConstruct
    \/ \E I \in PairCurrents, dt \in Steps : PairStep(I, dt)

SpecPair == InitPair /\ [][NextPair]_vars

\* C19: when try_generate_ocv_curve fails (PyBaMM missing, or its evaluation
\* raising), constructing with use_pybamm_ocv = True does not raise, leaves the
\* lookup unset, and every step returns exactly the telemetry, and leaves exactly
\* the state, of a pack constructed with use_pybamm_ocv = False
C19_GeneratorFailureDegrades ==
    pair.env # "ok" =>
        /\ ~pair.ctor_raised
        /\ pair.built =>
              /\ pair.a.ocv_lookup = NoLookup
              /\ pair.row_a = pair.row_b
              /\ pair.raised_a = pair.raised_b
              /\ AdvSnapshot(pair.a) = AdvSnapshot(pair.b)

\* C19 witness: without PyBaMM, the pack built with use_pybamm_ocv = True has
\* taken two steps and returned a row
C19_SteppedWithoutPyBaMM ==
    /\ pair.env = "no_pybamm"
    /\ pair.built
    /\ pair.ncalls = 2
    /\ pair.row_a # NoRow
    /\ pair.row_a = pair.row_b

\* a telemetry row without the two fields the OCV enters
RowCore(row) == IF row = NoRow THEN row ELSE [row EXCEPT !.v_pack_v = 0, !.power_w = 0]

\* C20: the OCV lookup changes only the reported voltage and power: after any
\* common sequence of steps the per-cell SOC, RC voltage, throughput, node
\* temperatures and aged cell parameters of the pack with the lookup equal
\* those of the pack without, and so does every other field of the telemetry
C20_LookupOnlyInVoltage ==
    (pair.env = "ok" /\ pair.built) =>
        /\ pair.a.ocv_lookup # NoLookup
        /\ pair.b.ocv_lookup = NoLookup
        /\ AdvSnapshot(pair.a) = AdvSnapshot(pair.b)
        /\ pair.raised_a = pair.raised_b
        /\ RowCore(pair.row_a) = RowCore(pair.row_b)

\* C20 witness: after two steps the pack with the lookup reports another pack
\* voltage than the pack without
C20_VoltageDiffers ==
    /\ pair.env = "ok"
    /\ pair.built
    /\ pair.ncalls = 2
    /\ ~pair.raised_a
    /\ pair.row_a.v_pack_v # pair.row_b.v_pack_v

-----------------------------------------------------------------------------
(* A time-stepper (Simulator.run, and the AdvancedSimulator.run of
   scripts/run_advanced_demo.py, which has the same loop) driving a BatteryPack
   or a BatteryPackAdvanced *)

TelCurrents == {-300, 600}

\* 1 s and 1 min between samples
TelSpacings == {1000, 60000}

RECURSIVE TelCyclesOfLen(_)
TelCyclesOfLen(n) ==
    IF n = 1
    THEN {<<[t |-> 0, I |-> I]>> : I \in TelCurrents}
    ELSE {Append(c, [t |-> c[Len(c)].t + d, I |-> I]) :
              c \in TelCyclesOfLen(n - 1), d \in TelSpacings, I \in TelCurrents}

TelCycles == UNION {TelCyclesOfLen(n) : n \in 1..MaxSamples}

InitTel ==
    /\ \E c \in TelCycles, kind \in {"basic", "advanced"} :
          tel = [kind |-> kind, cycle |-> c, k |-> 1, prev_t |-> c[1].t, rows |-> <<>>,
                 raised |-> FALSE,
                 state |-> PackConstructState(DefaultThermal, 800),
                 obj |-> AdvConstruct(DefaultCell, AdvPackParams, DefaultThermal,
                                      CHOOSE u \in PairAdvParams(FALSE) :
                                          u.balancing = DefaultBalancing,
                                      800, WideDraw, NotGenerated)]
    /\ cell_params = Idle /\ pack_params = Idle /\ thermal_params = Idle
    /\ packs = Idle /\ solo = Idle /\ last = Idle /\ ncalls = 0
    /\ adv = Idle /\ ag = Idle /\ sim = Idle
    /\ own = Idle /\ lim = Idle /\ tnet = Idle /\ pair = Idle
    /\ ecm = Idle /\ apb = Idle /\ qry = Idle /\ bms = Idle /\ chg = Idle

\* the loop body after pack.step returned or raised: row["time_s"] = float(t);
\* rows.append(row)
TelAppend(t, raised, row) ==
    IF raised THEN [tel EXCEPT !.raised = TRUE]
    ELSE [tel EXCEPT !.rows = Append(@, row @@ [time_s |-> t]), !.prev_t = t, !.k = @ + 1]

\* one pass of the loop over a BatteryPack
TelSampleBasicApply(t, r) ==
    tel' = [TelAppend(t, r.raised, r.row) EXCEPT !.state = r.state]

TelSampleBasic ==
    /\ tel.kind = "basic" /\ ~tel.raised
    /\ tel.k <= Len(tel.cycle)
    /\ TelSampleBasicApply(tel.cycle[tel.k].t,
          PackStepResult(tel.state, DefaultCell, SimPackParams, DefaultThermal,
                         tel.cycle[tel.k].I, RunDt(tel.cycle[tel.k].t, tel.prev_t)))
    /\ UNCHANGED <<packVars, adv, ag, sim, laterVars, ecm, apb, qry, bms, chg>>

\* one pass of the loop over a BatteryPackAdvanced
TelSampleAdvancedApply(t, r) ==
    tel' = [TelAppend(t, r.raised, r.row) EXCEPT !.obj = r.a]

TelSampleAdvanced ==
    /\ tel.kind = "advanced" /\ ~tel.raised
    /\ tel.k <= Len(tel.cycle)
    /\ TelSampleAdvancedApply(tel.cycle[tel.k].t,
          AdvStepResult(tel.obj, tel.cycle[tel.k].I,
                        RunDt(tel.cycle[tel.k].t, tel.prev_t)))
    /\ UNCHANGED <<packVars, adv, ag, sim, laterVars, ecm, apb, qry, bms, chg>>

NextTel == TelSampleBasic \/ TelSampleAdvanced

SpecTel == InitTel /\ [][NextTel]_vars

\* the fields the telemetry contract names: time, pack voltage, pack current,
\* SOC, temperature, power, heat
TelemetryFields == {"time_s", "v_pack_v", "i_pack_a", "soc", "temp_k", "power_w", "heat_w"}

\* C21: every record a time-stepper collects, from the basic pack and from the
\* advanced pack alike, carries time, pack voltage, pack current, SOC,
\* temperature, power and heat
C21_AllFieldsCarried ==
    \A j \in 1..Len(tel.rows) : TelemetryFields \subseteq DOMAIN tel.rows[j]

-----------------------------------------------------------------------------
(* One CellECM, its methods called with arguments of every kind *)

\* CellParams with the default OCV bounds, bounds that cut the curve on both
\* sides, bounds that coincide, bounds the curve never meets, and no RC branch
EcmCells ==
    {[DefaultCell EXCEPT !.ocv_floor_v = b[1], !.ocv_ceiling_v = b[2], !.C1_f = b[3],
                         !.capacity_ah = b[4]]
        : b \in {<<3000000, 4200000, 2000, 3000>>, <<3300000, 3900000, 2000, 1000>>,
                 <<3500000, 3500000, 2000, 3000>>, <<2500000, 4600000, 0, 3000>>}}

\* cell currents: 60 A and 3 A of charge, rest, 3 A and 60 A of discharge
EcmCurrents == {-600, -30, 0, 30, 600}

\* 0 s, 1 s, 1 min and 10 min
EcmSteps == {0, 1000, 60000, 600000}

\* RC voltages the call may find, besides the steady-state value R1 * I
EcmRcVoltages == {-100000, 0, 200000}

EcmTemps == {273150, 298150, 318150}

\* SOCs a step may start from: the ends of [0, 1], next to them, the middle
EcmStartSocs == {0, 3, 500, 997, 1000}

\* SOC arguments, a twentieth beyond either end of [0, 1] included
EcmSocs == {s \in -50..1050 : TRUE}

\* distances between the two SOC arguments compared
EcmSocGaps == {0, 1, 7, 250, 1100}

NoEcmCall == [op |-> "none"]

InitEcm ==
    /\ \E cp \in EcmCells : ecm = [cp |-> cp, call |-> NoEcmCall, out |-> NoEcmCall]
    /\ cell_params = Idle /\ pack_params = Idle /\ thermal_params = Idle
    /\ packs = Idle /\ solo = Idle /\ last = Idle /\ ncalls = 0
    /\ adv = Idle /\ ag = Idle /\ sim = Idle
    /\ own = Idle /\ lim = Idle /\ tnet = Idle /\ pair = Idle
    /\ tel = Idle /\ apb = Idle /\ qry = Idle /\ bms = Idle /\ chg = Idle

\* cell.ocv(s1); cell.ocv(s2)
EcmOcv(s1, s2) ==
    /\ ecm.call = NoEcmCall
    /\ ecm' = [ecm EXCEPT !.call = [op |-> "ocv", s1 |-> s1, s2 |-> s2],
                          !.out = [op |-> "ocv", v1 |-> Ocv(ecm.cp, s1),
                                   v2 |-> Ocv(ecm.cp, s2)]]
    /\ UNCHANGED <<packVars, adv, ag, sim, laterVars, tel, apb, qry, bms, chg>>

\* cell.step_voltage_states(I_a, dt_s, V_rc1_v, T_k, initial_soc), and the same
\* call at the reference temperature with no RC voltage
EcmStepApply(I_a, dt_s, V_rc1_v, T_k, initial_soc, r, ref) ==
    ecm' = [ecm EXCEPT
               !.call = [op |-> "step", I_a |-> I_a, dt_s |-> dt_s, V_rc1_v |-> V_rc1_v,
                         T_k |-> T_k, initial_soc |-> initial_soc],
               !.out = [op |-> "step", raised |-> r.raised, V_term |-> r.V_term,
                        V_rc1 |-> r.V_rc1, soc |-> r.soc, soc_ref |-> ref.soc]]

EcmStep(I_a, dt_s, V_rc1_v, T_k, initial_soc) ==
    /\ ecm.call = NoEcmCall
    /\ EcmStepApply(I_a, dt_s, V_rc1_v, T_k, initial_soc,
                    StepVoltageStates(ecm.cp, I_a, dt_s, V_rc1_v, T_k, initial_soc),
                    StepVoltageStates(ecm.cp, I_a, dt_s, 0, ecm.cp.T_ref_k, initial_soc))
    /\ UNCHANGED <<packVars, adv, ag, sim, laterVars, tel, apb, qry, bms, chg>>

\* two calls of step_voltage_states, dt1 then dt2, each fed the state the one
\* before returned, and one call with dt1 + dt2 from the same state
EcmSplitApply(I_a, dt1, dt2, initial_soc, first, second, whole) ==
    ecm' = [ecm EXCEPT
               !.call = [op |-> "split", I_a |-> I_a, dt1 |-> dt1, dt2 |-> dt2,
                         initial_soc |-> initial_soc],
               !.out = [op |-> "split", soc_first |-> first.soc, soc_two |-> second.soc,
                        soc_one |-> whole.soc]]

EcmSplitSecond(I_a, dt1, dt2, initial_soc, first) ==
    EcmSplitApply(I_a, dt1, dt2, initial_soc, first,
                  StepVoltageStates(ecm.cp, I_a, dt2, first.V_rc1, ecm.cp.T_ref_k, first.soc),
                  StepVoltageStates(ecm.cp, I_a, dt1 + dt2, 0, ecm.cp.T_ref_k, initial_soc))

EcmSplit(I_a, dt1, dt2, initial_soc) ==
    /\ ecm.call = NoEcmCall
    /\ EcmSplitSecond(I_a, dt1, dt2, initial_soc,
                      StepVoltageStates(ecm.cp, I_a, dt1, 0, ecm.cp.T_ref_k, initial_soc))
    /\ UNCHANGED <<packVars, adv, ag, sim, laterVars, tel, apb, qry, bms, chg>>

NextEcm ==
    \/ /\ ecm.call = NoEcmCall
       /\ \E s \in EcmSocs, d \in EcmSocGaps : EcmOcv(s, s + d)
    \/ /\ ecm.call = NoEcmCall
       /\ \E I \in EcmCurrents, dt \in EcmSteps, T \in EcmTemps, s \in EcmStartSocs :
             \E V \in EcmRcVoltages \cup {TempAdjustedResistances(ecm.cp, T).R1 * I} :
                 EcmStep(I, dt, V, T, s)
    \/ /\ ecm.call = NoEcmCall
       /\ \E I \in EcmCurrents, dt1 \in EcmSteps \ {0}, dt2 \in EcmSteps \ {0},
             s \in EcmStartSocs : EcmSplit(I, dt1, dt2, s)

SpecEcm == InitEcm /\ [][NextEcm]_vars

\* C22: CellECM.ocv is non-decreasing on [0, 1], and for every input, those
\* outside [0, 1] included, its value lies between ocv_floor_v and ocv_ceiling_v
C22_OcvMonotoneBounded ==
    ecm.call.op = "ocv" =>
        /\ (0 <= ecm.call.s1 /\ ecm.call.s1 <= ecm.call.s2 /\ ecm.call.s2 <= ONE)
              => ecm.out.v1 <= ecm.out.v2
        /\ ecm.cp.ocv_floor_v <= ecm.out.v1 /\ ecm.out.v1 <= ecm.cp.ocv_ceiling_v
        /\ ecm.cp.ocv_floor_v <= ecm.out.v2 /\ ecm.out.v2 <= ecm.cp.ocv_ceiling_v

\* C22 witness: ocv called beyond both ends of [0, 1] on a cell whose bounds
\* cut the curve, the floor returned at one end and the ceiling at the other
C22_BothBoundsMet ==
    /\ ecm.call.op = "ocv"
    /\ ecm.call.s1 < 0 /\ ecm.call.s2 > ONE
    /\ ecm.out.v1 = ecm.cp.ocv_floor_v
    /\ ecm.out.v2 = ecm.cp.ocv_ceiling_v
    /\ ecm.out.v1 < ecm.out.v2

\* C23: for capacity > 0, dt > 0 and soc_prev in [0, 1], step_voltage_states
\* returns the SOC clip(soc_prev - I*dt/(capacity_ah*3600), 0, 1), whatever the
\* temperature and the RC voltage; so a discharge never raises the SOC, a
\* charge never lowers it and no current leaves it as it was
C23_CoulombCountDirection ==
    (ecm.call.op = "step" /\ ecm.cp.capacity_ah > 0 /\ ecm.call.dt_s > 0) =>
        /\ ~ecm.out.raised
        /\ ecm.out.soc =
              Clip(ecm.call.initial_soc
                     - TDiv(ecm.call.I_a * ecm.call.dt_s, ecm.cp.capacity_ah * 36), 0, ONE)
        /\ ecm.out.soc = ecm.out.soc_ref
        /\ ecm.call.I_a > 0 => ecm.out.soc <= ecm.call.initial_soc
        /\ ecm.call.I_a < 0 => ecm.out.soc >= ecm.call.initial_soc
        /\ ecm.call.I_a = 0 => ecm.out.soc = ecm.call.initial_soc

\* C23 witness: a discharge away from the reference temperature and with an RC
\* voltage has lowered the SOC, short of the lower clip
C23_Drained ==
    /\ ecm.call.op = "step"
    /\ ecm.call.I_a > 0 /\ ecm.call.dt_s > 0
    /\ ecm.call.T_k # ecm.cp.T_ref_k /\ ecm.call.V_rc1_v # 0
    /\ 0 < ecm.out.soc /\ ecm.out.soc < ecm.call.initial_soc

\* the steady-state RC voltage R1 * I of the call made
EcmSteady == TempAdjustedResistances(ecm.cp, ecm.call.T_k).R1 * ecm.call.I_a

\* tau of the call made, in ms
EcmTau == TDiv(TempAdjustedResistances(ecm.cp, ecm.call.T_k).R1 * ecm.cp.C1_f, 100)

-----------------------------------------------------------------------------
(* apply_passive_balancing called on its own *)

\* BalancingParams: the defaults, a 2 A bleed, no margin over the mean, no
\* bleed current, balancing disabled
ApbParams ==
    {DefaultBalancing, StrongBalancing, NoBalancing,
     [DefaultBalancing EXCEPT !.soc_over_delta = 0],
     [DefaultBalancing EXCEPT !.bleed_current_a = 0]}

\* cell SOCs as the pack keeps them, in [0, 1]
ApbSocs == {0, 30, 500, 520, 1000}

ApbSocVectors == UNION {[1..n -> ApbSocs] : n \in 1..3}

\* capacities in mAh: equal cells, and cells 30 % apart
ApbCapacities == {<<3000, 3000, 3000>>, <<2100, 3000, 3900>>}

\* pack currents: rest, the idle threshold, just above it, 60 A of charge
ApbCurrents == {0, 20, 21, -600}

\* 0 s, 1 s, 10 min, 1 h
ApbSteps == {0, 1000, 600000, 3600000}

NoApbCall == [made |-> FALSE]

InitApb ==
    /\ \E bp \in ApbParams : apb = [bp |-> bp, call |-> NoApbCall, out |-> <<>>]
    /\ cell_params = Idle /\ pack_params = Idle /\ thermal_params = Idle
    /\ packs = Idle /\ solo = Idle /\ last = Idle /\ ncalls = 0
    /\ adv = Idle /\ ag = Idle /\ sim = Idle
    /\ own = Idle /\ lim = Idle /\ tnet = Idle /\ pair = Idle
    /\ tel = Idle /\ ecm = Idle /\ qry = Idle /\ bms = Idle /\ chg = Idle

\* apply_passive_balancing(soc, capacity_ah, pack_current_a, dt_s, bp)
ApbCall(soc, capacity_ah, pack_current_a, dt_s) ==
    /\ ~apb.call.made
    /\ apb' = [apb EXCEPT
                  !.call = [made |-> TRUE, soc |-> soc, capacity_ah |-> capacity_ah,
                            pack_current_a |-> pack_current_a, dt_s |-> dt_s],
                  !.out = ApplyPassiveBalancing(soc, capacity_ah, pack_current_a, dt_s,
                                                apb.bp)]
    /\ UNCHANGED <<packVars, adv, ag, sim, laterVars, tel, ecm, qry, bms, chg>>

NextApb ==
    /\ ~apb.call.made
    /\ \E soc \in ApbSocVectors, cap \in ApbCapacities, I \in ApbCurrents, dt \in ApbSteps :
          ApbCall(soc, SubSeq(cap, 1, Len(soc)), I, dt)

SpecApb == InitApb /\ [][NextApb]_vars

\* the SOC a bleed of dt_s takes off cell i of the call made
ApbDsoc(i) == TDiv(apb.bp.bleed_current_a * apb.call.dt_s, apb.call.capacity_ah[i] * 36)

-----------------------------------------------------------------------------
(* A BatteryPack stepped, with compute_power_limits called on it between the
   steps, and a twin stepped alike and never queried *)

MaxQryCalls == 3

QryCurrents == {-600, 600}

\* candidate SOCs handed to compute_power_limits, none of them the pack's own
QrySocs == {0, 500, 1000}

\* the pack as compute_power_limits reads it: pack.cell.params, pack.pack_params,
\* pack.state.T_k, and the candidate soc
QryView(obj, soc) == [cell |-> obj.cell, pp |-> obj.pp, T_k |-> obj.state.T_k, soc |-> soc]

\* a query that leaves the candidate SOC in the pack's state
LimitsPackAfterSocStored(obj, soc) == [obj EXCEPT !.state.soc = soc]

\* the pack after compute_power_limits(pack, soc): neither the function nor
\* _voltage_at_current assigns to pack, its state or its parameter records
LimitsPackAfter(obj, soc) == obj

InitQry ==
    /\ qry = [obj  |-> [cell |-> DefaultCell, pp |-> SimPackParams, tp |-> DefaultThermal,
                        state |-> PackConstructState(DefaultThermal, 800)],
              twin |-> [cell |-> DefaultCell, pp |-> SimPackParams, tp |-> DefaultThermal,
                        state |-> PackConstructState(DefaultThermal, 800)],
              ncalls |-> 0, nqueries |-> 0, limits |-> NoRow, last |-> NoCall]
    /\ cell_params = Idle /\ pack_params = Idle /\ thermal_params = Idle
    /\ packs = Idle /\ solo = Idle /\ last = Idle /\ ncalls = 0
    /\ adv = Idle /\ ag = Idle /\ sim = Idle
    /\ own = Idle /\ lim = Idle /\ tnet = Idle /\ pair = Idle
    /\ tel = Idle /\ ecm = Idle /\ apb = Idle /\ bms = Idle /\ chg = Idle

\* pack.step(I, dt) and twin.step(I, dt), given what the calls leave
QryStepApply(I_pack_a, dt_s, r, t) ==
    qry' = [qry EXCEPT !.obj.state = r.state, !.twin.state = t.state,
                       !.ncalls = @ + 1,
                       !.last = [op |-> "step", pre |-> qry.obj]]

QryStep(I_pack_a, dt_s) ==
    /\ qry.ncalls < MaxQryCalls
    /\ QryStepApply(I_pack_a, dt_s,
          PackStepResult(qry.obj.state, qry.obj.cell, qry.obj.pp, qry.obj.tp,
                         I_pack_a, dt_s),
          PackStepResult(qry.twin.state, qry.twin.cell, qry.twin.pp, qry.twin.tp,
                         I_pack_a, dt_s))
    /\ UNCHANGED <<packVars, adv, ag, sim, laterVars, tel, ecm, apb, bms, chg>>

\* limits = compute_power_limits(pack, soc)
QryLimits(soc) ==
    /\ qry.ncalls < MaxQryCalls
    /\ qry' = [qry EXCEPT !.obj = LimitsPackAfter(qry.obj, soc),
                          !.limits = ComputePowerLimits(QryView(qry.obj, soc)),
                          !.ncalls = @ + 1, !.nqueries = @ + 1,
                          !.last = [op |-> "limits", pre |-> qry.obj]]
    /\ UNCHANGED <<packVars, adv, ag, sim, laterVars, tel, ecm, apb, bms, chg>>

NextQry ==
    \/ \E I \in QryCurrents, dt \in Steps : QryStep(I, dt)
    \/ \E s \in QrySocs : QryLimits(s)

SpecQry == InitQry /\ [][NextQry]_vars

\* C27: compute_power_limits is a pure query: the pack's state (soc, T_k,
\* V_rc1_v) and its parameter records are after the call what they were before
\* it, whatever the candidate soc, so a pack queried between its steps is at
\* every moment in the state of a pack stepped alike and never queried
C27_LimitsQueryIsPure ==
    /\ qry.last.op = "limits" => qry.obj = qry.last.pre
    /\ qry.obj = qry.twin

\* C27 witness: a step taken after a query that found a positive discharge
\* limit for a candidate SOC other than the pack's own
C27_SteppedAfterQuery ==
    /\ qry.last.op = "step"
    /\ qry.nqueries > 0
    /\ qry.limits # NoRow /\ qry.limits.max_discharge_w > 0
    /\ qry.obj.state # PackConstructState(DefaultThermal, 800)

-----------------------------------------------------------------------------
(* bms.py: BMSProtection; voltages in mV *)

\* the fields of the dataclass ProtectionResult
ProtectionResultFields ==
    {"status", "current_limit_a", "voltage_ok", "current_ok", "temperature_ok", "message"}

\* ProtectionResult(**kw): the generated __init__ raises TypeError on a keyword
\* that is no field, or when a field is missing
ProtectionResultInit(kw) ==
    IF DOMAIN kw = ProtectionResultFields
    THEN [raised |-> FALSE, result |-> kw]
    ELSE [raised |-> TRUE, result |-> NoRow]

\* ProtectionLimits()
DefaultLimits ==
    [V_min_v |-> 3000, V_max_v |-> 4200, I_max_discharge_a |-> 1200,
     I_max_charge_a |-> 1200, T_min_k |-> 273150, T_max_k |-> 328150,
     short_circuit_current_a |-> 5000]

\* check_protection, lines 105-125: the current protection; the locals it binds
CheckCurrent(l, current_a) ==
    IF Abs(current_a) > l.short_circuit_current_a
    THEN [status |-> "short_circuit", current_limit |-> 0, current_ok |-> FALSE]
    ELSE IF current_a > l.I_max_discharge_a
    THEN [status |-> "over_current_discharge", current_limit |-> l.I_max_discharge_a,
          current_ok |-> FALSE]
    ELSE IF current_a < -l.I_max_charge_a
    THEN [status |-> "over_current_charge", current_limit |-> -l.I_max_charge_a,
          current_ok |-> FALSE]
    ELSE [status |-> "ok", current_limit |-> current_a, current_ok |-> TRUE]

\* check_protection, lines 94-125: the temperature protection, then the current's
CheckTemperature(l, current_a, temperature_k) ==
    IF temperature_k > l.T_max_k
    THEN [status |-> "over_temperature", current_limit |-> 0, current_ok |-> TRUE,
          temperature_ok |-> FALSE]
    ELSE IF temperature_k < l.T_min_k
    THEN [status |-> "under_temperature", current_limit |-> 0, current_ok |-> TRUE,
          temperature_ok |-> FALSE]
    ELSE CheckCurrent(l, current_a) @@ [temperature_ok |-> TRUE]

\* check_protection, lines 83-125: the voltage protection, then the others'; the
\* values of status, current_limit, voltage_ok, current_ok, temperature_ok at
\* line 127, the last two True where the local was never bound
CheckLocals(l, V_cell, current_a, temperature_k) ==
    IF V_cell < l.V_min_v
    THEN [status |-> "under_voltage", current_limit |-> 0, voltage_ok |-> FALSE,
          current_ok |-> TRUE, temperature_ok |-> TRUE]
    ELSE IF V_cell > l.V_max_v
    THEN [status |-> "over_voltage", current_limit |-> 0, voltage_ok |-> FALSE,
          current_ok |-> TRUE, temperature_ok |-> TRUE]
    ELSE CheckTemperature(l, current_a, temperature_k) @@ [voltage_ok |-> TRUE]

\* check_protection, lines 129-136: the keywords handed to ProtectionResult
CheckKeywords(c) ==
    [status |-> c.status, current_limit |-> c.current_limit, voltage_ok |-> c.voltage_ok,
     current_ok |-> c.current_ok, temperature_ok |-> c.temperature_ok,
     message |-> c.status]

\* BMSProtection.check_protection: [raised, result, last_status]
CheckProtection(l, voltage_v, current_a, temperature_k, cell_count) ==
    LET c == CheckLocals(l, TDiv(voltage_v, Max(1, cell_count)), current_a, temperature_k)
    IN  ProtectionResultInit(CheckKeywords(c)) @@ [last_status |-> c.status]

\* BMSProtection.apply_current_limit: reading an attribute the object does not
\* have raises AttributeError
ApplyCurrentLimit(requested_current_a, protection_result) ==
    IF protection_result.status = "ok"
    THEN [raised |-> FALSE, value |-> requested_current_a]
    ELSE IF "current_limit" \in DOMAIN protection_result
    THEN [raised |-> FALSE, value |-> protection_result.current_limit]
    ELSE [raised |-> TRUE, value |-> 0]

\* Inputs: pack voltages, series-cell counts, currents and temperatures on both
\* sides of every limit
BmsVoltages == {2999, 3000, 3700, 4200, 4201, 7400, 9000}

BmsCellCounts == {0, 1, 2}

BmsCurrents == {-6000, -1201, -1200, 0, 1200, 1201, 5000, 5001}

BmsTemps == {273149, 273150, 298150, 328150, 328151}

\* ProtectionResult objects a caller can build: one with status OK, one without
BmsResults ==
    {[status |-> st, current_limit_a |-> 1200, voltage_ok |-> TRUE, current_ok |-> (st = "ok"),
      temperature_ok |-> TRUE, message |-> st] : st \in {"ok", "over_current_discharge"}}

NoBmsCall == [op |-> "none"]

InitBms ==
    /\ bms = [limits |-> DefaultLimits, last_status |-> "ok", call |-> NoBmsCall,
              out |-> NoBmsCall]
    /\ cell_params = Idle /\ pack_params = Idle /\ thermal_params = Idle
    /\ packs = Idle /\ solo = Idle /\ last = Idle /\ ncalls = 0
    /\ adv = Idle /\ ag = Idle /\ sim = Idle
    /\ own = Idle /\ lim = Idle /\ tnet = Idle /\ pair = Idle
    /\ tel = Idle /\ ecm = Idle /\ apb = Idle /\ qry = Idle /\ chg = Idle

\* result = bms.check_protection(voltage_v, current_a, temperature_k, cell_count)
BmsCheckApply(voltage_v, current_a, temperature_k, cell_count, r) ==
    bms' = [bms EXCEPT
               !.last_status = r.last_status,
               !.call = [op |-> "check", voltage_v |-> voltage_v, current_a |-> current_a,
                         temperature_k |-> temperature_k, cell_count |-> cell_count],
               !.out = [op |-> "check", raised |-> r.raised, result |-> r.result]]

BmsCheck(voltage_v, current_a, temperature_k, cell_count) ==
    /\ bms.call.op = "none"
    /\ BmsCheckApply(voltage_v, current_a, temperature_k, cell_count,
                     CheckProtection(bms.limits, voltage_v, current_a, temperature_k,
                                     cell_count))
    /\ UNCHANGED <<packVars, adv, ag, sim, laterVars, tel, ecm, apb, qry, chg>>

\* bms.apply_current_limit(requested_current_a, result) on the result of the
\* check made, if it returned one, or on one the caller built
BmsApplyApply(requested_current_a, protection_result, r) ==
    bms' = [bms EXCEPT
               !.call = [op |-> "apply", requested_current_a |-> requested_current_a,
                         protection_result |-> protection_result],
               !.out = [op |-> "apply", raised |-> r.raised, value |-> r.value]]

BmsApply(requested_current_a, protection_result) ==
    /\ bms.call.op \in {"none", "check"}
    /\ bms.call.op = "check" => (~bms.out.raised /\ protection_result = bms.out.result)
    /\ BmsApplyApply(requested_current_a, protection_result,
                     ApplyCurrentLimit(requested_current_a, protection_result))
    /\ UNCHANGED <<packVars, adv, ag, sim, laterVars, tel, ecm, apb, qry, chg>>

NextBms ==
    \/ \E v \in BmsVoltages, i \in BmsCurrents, t \in BmsTemps, n \in BmsCellCounts :
          BmsCheck(v, i, t, n)
    \/ \E i \in BmsCurrents, r \in BmsResults : BmsApply(i, r)

SpecBms == InitBms /\ [][NextBms]_vars

\* the per-cell voltage of the check made
BmsCellVoltage == TDiv(bms.call.voltage_v, Max(1, bms.call.cell_count))

BmsVoltageOk ==
    bms.limits.V_min_v <= BmsCellVoltage /\ BmsCellVoltage <= bms.limits.V_max_v

BmsTemperatureOk ==
    /\ bms.limits.T_min_k <= bms.call.temperature_k
    /\ bms.call.temperature_k <= bms.limits.T_max_k

BmsCurrentOk ==
    /\ Abs(bms.call.current_a) <= bms.limits.short_circuit_current_a
    /\ bms.call.current_a <= bms.limits.I_max_discharge_a
    /\ bms.call.current_a >= -bms.limits.I_max_charge_a

\* C29: check_protection never raises and returns a result with a status and a
\* current limit: OK with the supplied current exactly when voltage, temperature
\* and current are within their limits, else the violated limit, a voltage fault
\* before a temperature fault before a current fault; and apply_current_limit
\* returns the result's current limit
C29_CheckProtectionReturns ==
    /\ bms.call.op = "check" =>
          /\ ~bms.out.raised
          /\ {"status", "current_limit_a"} \subseteq DOMAIN bms.out.result
          /\ (bms.out.result.status = "ok")
                <=> (BmsVoltageOk /\ BmsTemperatureOk /\ BmsCurrentOk)
          /\ bms.out.result.status = "ok"
                => bms.out.result.current_limit_a = bms.call.current_a
          /\ ~BmsVoltageOk
                => bms.out.result.status \in {"under_voltage", "over_voltage"}
          /\ (BmsVoltageOk /\ ~BmsTemperatureOk)
                => bms.out.result.status \in {"under_temperature", "over_temperature"}
          /\ (BmsVoltageOk /\ BmsTemperatureOk /\ ~BmsCurrentOk)
                => bms.out.result.status \in
                      {"short_circuit", "over_current_discharge", "over_current_charge"}
    /\ bms.call.op = "apply" =>
          /\ ~bms.out.raised
          /\ bms.call.protection_result.status # "ok"
                => bms.out.value = bms.call.protection_result.current_limit_a

-----------------------------------------------------------------------------
(* charging.py: constant_current_constant_voltage *)

MaxChgIters == 30

\* ChargingParams(): cc_phase_soc 0.3, cv_phase_start_soc 0.8, taper 10 A,
\* cell_V_max 4.2 V; PackParams(): 40 cells in series
ChgDefaults ==
    [cc_phase_soc |-> 300, cv_phase_start_soc |-> 800, taper_current_a |-> 100,
     cell_V_max |-> 4200000, series_cells |-> 40]

\* the arguments tried: soc_start < soc_target <= 1, max_current_a > 0, dt_s of
\* 10 s, 20 s and 1 min, the default cell and one with an OCV ceiling of 4.5 V
ChgConfigs ==
    {[soc_start |-> a, soc_target |-> b, max_current_a |-> i, dt_s |-> dt,
      cell |-> [DefaultCell EXCEPT !.ocv_ceiling_v = c]]
        : a \in {100, 500, 790}, b \in {800, 850, 1000}, i \in {300, 1000},
          dt \in {10000, 20000, 60000}, c \in {4200000, 4500000}}

\* lines 80-83: V_pack_est from the linear OCV approximation
ChgPackVoltage(cfg, soc) ==
    ChgDefaults.series_cells
      * (cfg.cell.ocv_floor_v
           + TDiv((cfg.cell.ocv_ceiling_v - cfg.cell.ocv_floor_v) * soc, ONE))

\* lines 91-94 with min in place of max: the taper current as the least
\* magnitude
ChgTaperFloored(max_I_charge, soc) ==
    Min(-ChgDefaults.taper_current_a,
        TDiv(max_I_charge * (ONE - 10 * (soc - ChgDefaults.cv_phase_start_soc)), ONE))

\* lines 91-94: the constant-voltage phase current
ChgTaper(max_I_charge, soc) ==
    Max(-ChgDefaults.taper_current_a,
        TDiv(max_I_charge * (ONE - 10 * (soc - ChgDefaults.cv_phase_start_soc)), ONE))

\* lines 98-101: the transition phase current
ChgTransition(max_I_charge, soc) ==
    TDiv(max_I_charge
           * (ONE - TDiv(TDiv((soc - ChgDefaults.cc_phase_soc) * ONE,
                              ChgDefaults.cv_phase_start_soc - ChgDefaults.cc_phase_soc),
                         2)),
         ONE)

\* lines 86-101: the phase and I_charge at soc_current
ChgCurrent(cfg, soc, max_I_charge, V_pack_est) ==
    IF soc < ChgDefaults.cc_phase_soc
         \/ V_pack_est < TDiv(ChgDefaults.series_cells * ChgDefaults.cell_V_max, 100) * 95
    THEN [phase |-> "cc", I |-> max_I_charge]
    ELSE IF soc >= ChgDefaults.cv_phase_start_soc
    THEN [phase |-> "cv", I |-> ChgTaper(max_I_charge, soc)]
    ELSE [phase |-> "transition", I |-> ChgTransition(max_I_charge, soc)]

\* lines 104-106: soc_current after the pass
ChgNextSoc(cfg, soc, I_charge) ==
    Min(cfg.soc_target, soc + TDiv(Abs(I_charge) * cfg.dt_s, cfg.cell.capacity_ah * 36))

NoPass == [phase |-> "none"]

InitChg ==
    /\ \E cfg \in ChgConfigs :
          chg = [cfg |-> cfg, pc |-> "loop", soc_current |-> cfg.soc_start, t |-> 0,
                 n |-> 0, pass |-> NoPass]
    /\ cell_params = Idle /\ pack_params = Idle /\ thermal_params = Idle
    /\ packs = Idle /\ solo = Idle /\ last = Idle /\ ncalls = 0
    /\ adv = Idle /\ ag = Idle /\ sim = Idle
    /\ own = Idle /\ lim = Idle /\ tnet = Idle /\ pair = Idle
    /\ tel = Idle /\ ecm = Idle /\ apb = Idle /\ qry = Idle /\ bms = Idle

\* one pass of the while loop, lines 77-117, given the phase and current chosen
ChgPassApply(c, V_pack_est) ==
    chg' = [chg EXCEPT
               !.soc_current = ChgNextSoc(chg.cfg, chg.soc_current, c.I),
               !.t = @ + chg.cfg.dt_s,
               !.n = @ + 1,
               !.pass = [phase |-> c.phase, time_s |-> chg.t, current_a |-> c.I,
                         voltage_v |-> V_pack_est, soc_before |-> chg.soc_current,
                         soc_after |-> ChgNextSoc(chg.cfg, chg.soc_current, c.I)]]

ChgPass ==
    /\ chg.pc = "loop"
    /\ chg.soc_current < chg.cfg.soc_target
    /\ chg.n < MaxChgIters
    /\ ChgPassApply(ChgCurrent(chg.cfg, chg.soc_current, -Abs(chg.cfg.max_current_a),
                               ChgPackVoltage(chg.cfg, chg.soc_current)),
                    ChgPackVoltage(chg.cfg, chg.soc_current))
    /\ UNCHANGED <<packVars, adv, ag, sim, laterVars, tel, ecm, apb, qry, bms>>

\* lines 119-127: soc_target reached, the profile is returned
ChgReturn ==
    /\ chg.pc = "loop"
    /\ chg.soc_current >= chg.cfg.soc_target
    /\ chg' = [chg EXCEPT !.pc = "returned"]
    /\ UNCHANGED <<packVars, adv, ag, sim, laterVars, tel, ecm, apb, qry, bms>>

NextChg == ChgPass \/ ChgReturn

SpecChg == InitChg /\ [][NextChg]_vars

\* C30: every current the profile emits is a charging current, strictly
\* negative and no larger in magnitude than max_current_a, in the
\* constant-current, transition and constant-voltage phases alike, and the
\* tracked SOC rises strictly in every pass until soc_target is reached
C30_AlwaysChargingSocRising ==
    chg.pass # NoPass =>
        /\ chg.pass.current_a < 0
        /\ Abs(chg.pass.current_a) <= chg.cfg.max_current_a
        /\ chg.pass.soc_after > chg.pass.soc_before

=============================================================================
